---------------------------- MODULE Spec2Model ----------------------------
(***************************************************************************)
(* Checkpoint splitting and reassembly for the DynamoDB checkpointer:      *)
(* CheckpointSizeService (size analysis), CheckpointSplittingService       *)
(* (split, store with retry and rollback, gather, reassemble) and the      *)
(* caller-facing adapter operations put / getTuple / list / deleteThread.  *)
(*                                                                         *)
(* Texts (the results of JSON.stringify and of the Base64 encoding) are    *)
(* sequences of one-character strings; a byte length is the length of the  *)
(* sequence (every character used is ASCII).                               *)
(***************************************************************************)
EXTENDS Integers, Sequences, FiniteSets, TLC

(***************************************************************************)
(* Bounds of the exploration.                                              *)
(***************************************************************************)
MaxMsgs == 2
MaxPuts == 1
MaxFaults == 2
MaxDeadline == 1
MaxChunked == 4

(***************************************************************************)
(* Options: an absent value is <<>>, a present value x is <<x>>.           *)
(***************************************************************************)
None == <<>>
Some(x) == <<x>>
IsSome(o) == Len(o) > 0
Get(o) == o[1]

Max(a, b) == IF a >= b THEN a ELSE b
Min(a, b) == IF a <= b THEN a ELSE b
CeilDiv(a, b) == (a + b - 1) \div b

\* a message of a warning, of a reason or of an Error, with its interpolated
\* values
Msg(text, a, b) == [prefix |-> <<>>, text |-> text, a |-> a, b |-> b]

RECURSIVE Concat(_)
Concat(ss) == IF Len(ss) = 0 THEN <<>> ELSE Head(ss) \o Concat(Tail(ss))

IsPrefix(p, s) == Len(p) <= Len(s) /\ SubSeq(s, 1, Len(p)) = p

(***************************************************************************)
(* Characters and decimal numbers.                                         *)
(***************************************************************************)
DigitChars == <<"0", "1", "2", "3", "4", "5", "6", "7", "8", "9">>
IsDigit(c) == \E i \in 1..10 : DigitChars[i] = c
DigitVal(c) == (CHOOSE i \in 1..10 : DigitChars[i] = c) - 1

\* Number.prototype.toString(): the decimal digits of n
RECURSIVE NumToText(_)
NumToText(n) ==
    IF n < 10 THEN <<DigitChars[n + 1]>>
    ELSE NumToText(n \div 10) \o <<DigitChars[(n % 10) + 1]>>

\* String.prototype.padStart(width, pad)
RECURSIVE PadStart(_, _, _)
PadStart(s, width, pad) ==
    IF Len(s) >= width THEN s ELSE PadStart(<<pad>> \o s, width, pad)

(***************************************************************************)
(* The payloads.  A checkpoint is its channel_values: an ordered list of   *)
(* channels, each either a plain value or an object holding a "messages"   *)
(* array; a message is a JSON number.  Metadata is {source: n}.            *)
(***************************************************************************)
ChannelNames == <<"a", "b">>
MsgValues == {1, 22}
PlainValues == {7}
MetaValues == {5}

RECURSIVE SeqsUpTo(_, _)
SeqsUpTo(S, n) ==
    IF n = 0 THEN {<<>>}
    ELSE LET shorter == SeqsUpTo(S, n - 1)
         IN  shorter \cup {Append(s, x) : s \in {t \in shorter : Len(t) = n - 1}, x \in S}

MsgSeqs == SeqsUpTo(MsgValues, MaxMsgs)

PlainChannel(nm, v) == [name |-> nm, hasMessages |-> FALSE, messages |-> <<>>, value |-> v]
MsgChannel(nm, ms) == [name |-> nm, hasMessages |-> TRUE, messages |-> ms, value |-> 0]

FirstChannels ==
    {PlainChannel(ChannelNames[1], v) : v \in PlainValues}
        \cup {MsgChannel(ChannelNames[1], ms) : ms \in MsgSeqs}
SecondChannels ==
    {PlainChannel(ChannelNames[2], v) : v \in PlainValues}
        \cup {MsgChannel(ChannelNames[2], <<22, 1>>)}

CheckpointInputs ==
    {[channel_values |-> <<c>>] : c \in FirstChannels}
        \cup {[channel_values |-> <<c, d>>] : c \in FirstChannels, d \in SecondChannels}
\* the checkpoints the callers put
PutInputs ==
    {cp \in CheckpointInputs :
        \/ Len(cp.channel_values) = 1
        \/ Len(cp.channel_values[1].messages) = 1 /\ cp.channel_values[2].hasMessages}
MetadataInputs == {[source |-> v] : v \in MetaValues}

(***************************************************************************)
(* JSON.stringify                                                          *)
(***************************************************************************)
RECURSIVE JoinTexts(_, _)
JoinTexts(ts, sep) ==
    IF Len(ts) = 0 THEN <<>>
    ELSE IF Len(ts) = 1 THEN ts[1]
    ELSE ts[1] \o sep \o JoinTexts(Tail(ts), sep)

StringifyMessages(ms) ==
    <<"[">> \o JoinTexts([i \in 1..Len(ms) |-> NumToText(ms[i])], <<",">>) \o <<"]">>

StringifyChannel(ch) ==
    <<ch.name, ":">> \o
        (IF ch.hasMessages
         THEN <<"{", "m", ":">> \o StringifyMessages(ch.messages) \o <<"}">>
         ELSE NumToText(ch.value))

StringifyCheckpoint(cp) ==
    <<"{">> \o
        JoinTexts([i \in 1..Len(cp.channel_values) |->
                      StringifyChannel(cp.channel_values[i])], <<",">>)
        \o <<"}">>

StringifyMetadata(md) == <<"{", "s", ":">> \o NumToText(md.source) \o <<"}">>

\* JSON.stringify({ checkpoint, metadata })
StringifyFull(cp, md) ==
    <<"{", "c", ":">> \o StringifyCheckpoint(cp) \o <<",", "d", ":">>
        \o StringifyMetadata(md) \o <<"}">>

\* new TextEncoder().encode(text).length
ByteLength(text) == Len(text)

(***************************************************************************)
(* JSON.parse.  Each parser returns [ok, val, rest]; a text that is not    *)
(* well formed makes JSON.parse throw, which is ok = FALSE here.           *)
(***************************************************************************)
ParseFail == [ok |-> FALSE, val |-> <<>>, rest |-> <<>>]
ParseOk(v, r) == [ok |-> TRUE, val |-> v, rest |-> r]
Drop(t, n) == SubSeq(t, n + 1, Len(t))
StartsWith(t, p) == IsPrefix(p, t)

RECURSIVE DigitsPrefixLen(_)
DigitsPrefixLen(t) ==
    IF Len(t) > 0 /\ IsDigit(t[1]) THEN 1 + DigitsPrefixLen(Tail(t)) ELSE 0

RECURSIVE TextToNum(_)
TextToNum(ds) ==
    IF Len(ds) = 0 THEN 0
    ELSE 10 * TextToNum(SubSeq(ds, 1, Len(ds) - 1)) + DigitVal(ds[Len(ds)])

ParseNumber(t) ==
    LET n == DigitsPrefixLen(t)
    IN  IF n = 0 \/ (n > 1 /\ t[1] = "0") THEN ParseFail
        ELSE ParseOk(TextToNum(SubSeq(t, 1, n)), Drop(t, n))

\* the array continued after its element e
RECURSIVE ParseMoreMessages(_, _)
MessagesAfter(e, acc) ==
    IF e.ok THEN ParseMoreMessages(e.rest, Append(acc, e.val)) ELSE ParseFail

\* t stands right after an element of the array: "," element ... "]"
ParseMoreMessages(t, acc) ==
    IF StartsWith(t, <<"]">>) THEN ParseOk(acc, Drop(t, 1))
    ELSE IF StartsWith(t, <<",">>) THEN MessagesAfter(ParseNumber(Drop(t, 1)), acc)
    ELSE ParseFail

ParseMessages(t) ==
    IF ~StartsWith(t, <<"[">>) THEN ParseFail
    ELSE IF StartsWith(t, <<"[", "]">>) THEN ParseOk(<<>>, Drop(t, 2))
    ELSE MessagesAfter(ParseNumber(Drop(t, 1)), <<>>)

IsChannelName(c) == \E i \in 1..Len(ChannelNames) : ChannelNames[i] = c

\* the channel object closed after its messages m
MsgChannelAfter(nm, m) ==
    IF m.ok /\ StartsWith(m.rest, <<"}">>)
    THEN ParseOk(MsgChannel(nm, m.val), Drop(m.rest, 1))
    ELSE ParseFail

PlainChannelAfter(nm, v) ==
    IF v.ok THEN ParseOk(PlainChannel(nm, v.val), v.rest) ELSE ParseFail

ParseChannel(t) ==
    IF ~(Len(t) >= 3 /\ IsChannelName(t[1]) /\ t[2] = ":") THEN ParseFail
    ELSE IF StartsWith(Drop(t, 2), <<"{", "m", ":">>)
    THEN MsgChannelAfter(t[1], ParseMessages(Drop(t, 5)))
    ELSE PlainChannelAfter(t[1], ParseNumber(Drop(t, 2)))

\* the object continued after its channel c
RECURSIVE ParseMoreChannels(_, _)
ChannelsAfter(c, acc) ==
    IF c.ok THEN ParseMoreChannels(c.rest, Append(acc, c.val)) ELSE ParseFail

ParseMoreChannels(t, acc) ==
    IF StartsWith(t, <<"}">>) THEN ParseOk([channel_values |-> acc], Drop(t, 1))
    ELSE IF StartsWith(t, <<",">>) THEN ChannelsAfter(ParseChannel(Drop(t, 1)), acc)
    ELSE ParseFail

ParseCheckpointValue(t) ==
    IF ~StartsWith(t, <<"{">>) THEN ParseFail
    ELSE IF StartsWith(t, <<"{", "}">>) THEN ParseOk([channel_values |-> <<>>], Drop(t, 2))
    ELSE ChannelsAfter(ParseChannel(Drop(t, 1)), <<>>)

MetadataAfter(v) ==
    IF v.ok /\ StartsWith(v.rest, <<"}">>)
    THEN ParseOk([source |-> v.val], Drop(v.rest, 1))
    ELSE ParseFail

ParseMetadataValue(t) ==
    IF ~StartsWith(t, <<"{", "s", ":">>) THEN ParseFail
    ELSE MetadataAfter(ParseNumber(Drop(t, 3)))

\* JSON.parse of a whole text: an option, None when JSON.parse throws
Whole(r) == IF r.ok /\ r.rest = <<>> THEN Some(r.val) ELSE None
JsonParseCheckpoint(text) == Whole(ParseCheckpointValue(text))
JsonParseMetadata(text) == Whole(ParseMetadataValue(text))
JsonParseMessages(text) == Whole(ParseMessages(text))

FullAfterMetadata(c, d) ==
    IF d.ok /\ d.rest = <<"}">>
    THEN Some([checkpoint |-> c.val, metadata |-> d.val])
    ELSE None

\* the text after the checkpoint value: the object may end there (metadata
\* is then undefined), and the metadata may be any value, a number too
FullAfterCheckpoint(c) ==
    IF ~c.ok THEN None
    ELSE IF c.rest = <<"}">>
    THEN Some([checkpoint |-> c.val, metadata |-> [undefined |-> TRUE]])
    ELSE IF ~StartsWith(c.rest, <<",", "d", ":">>) THEN None
    ELSE LET d == ParseMetadataValue(Drop(c.rest, 3))
             n == ParseNumber(Drop(c.rest, 3))
         IN  IF d.ok THEN FullAfterMetadata(c, d)
             ELSE IF n.ok /\ n.rest = <<"}">>
             THEN Some([checkpoint |-> c.val, metadata |-> [number |-> n.val]])
             ELSE None

\* JSON.parse(decodedData) as { checkpoint, metadata }; the cast checks nothing
JsonParseFull(text) ==
    IF ~StartsWith(text, <<"{", "c", ":">>) THEN None
    ELSE FullAfterCheckpoint(ParseCheckpointValue(Drop(text, 3)))

(***************************************************************************)
(* Base64.  A Base64 text is a sequence of sextets 0..63 and the padding   *)
(* mark 64; a byte is the character's code.                                *)
(***************************************************************************)
CharTable ==
    <<"{", "}", "[", "]", ",", ":", "0", "1", "2", "3", "4", "5", "6", "7",
      "8", "9", "a", "b", "c", "d", "m", "s">>
CodeTable ==
    <<123, 125, 91, 93, 44, 58, 48, 49, 50, 51, 52, 53, 54, 55,
      56, 57, 97, 98, 99, 100, 109, 115>>
CharCode(c) == CodeTable[CHOOSE i \in 1..Len(CharTable) : CharTable[i] = c]
\* a byte that is no character of a payload text decodes to "?"
CodeChar(b) ==
    IF \E i \in 1..Len(CodeTable) : CodeTable[i] = b
    THEN CharTable[CHOOSE i \in 1..Len(CodeTable) : CodeTable[i] = b]
    ELSE "?"
PadMark == 64

\* Buffer.from(text, "utf8")
Utf8Bytes(text) == [i \in 1..Len(text) |-> CharCode(text[i])]
\* buffer.toString("utf8")
Utf8Text(bytes) == [i \in 1..Len(bytes) |-> CodeChar(bytes[i])]

\* buffer.toString("base64")
RECURSIVE Base64Encode(_)
Base64Encode(bs) ==
    IF Len(bs) = 0 THEN <<>>
    ELSE IF Len(bs) = 1
    THEN <<bs[1] \div 4, (bs[1] % 4) * 16, PadMark, PadMark>>
    ELSE IF Len(bs) = 2
    THEN <<bs[1] \div 4, (bs[1] % 4) * 16 + bs[2] \div 16, (bs[2] % 16) * 4, PadMark>>
    ELSE <<bs[1] \div 4, (bs[1] % 4) * 16 + bs[2] \div 16,
           (bs[2] % 16) * 4 + bs[3] \div 64, bs[3] % 64>>
             \o Base64Encode(Drop(bs, 3))

\* Buffer.from(text, "base64"): lenient, stops at the first padding mark,
\* a trailing lone sextet is dropped
RECURSIVE Base64Decode(_)
Base64Decode(cs) ==
    LET n == IF \E i \in 1..Len(cs) : cs[i] = PadMark
             THEN (CHOOSE i \in 1..Len(cs) :
                      cs[i] = PadMark /\ \A j \in 1..(i - 1) : cs[j] # PadMark) - 1
             ELSE Len(cs)
        s == SubSeq(cs, 1, n)
    IN  IF n < 2 THEN <<>>
        ELSE IF n = 2 THEN <<s[1] * 4 + s[2] \div 16>>
        ELSE IF n = 3 THEN <<s[1] * 4 + s[2] \div 16, (s[2] % 16) * 16 + s[3] \div 4>>
        ELSE <<s[1] * 4 + s[2] \div 16, (s[2] % 16) * 16 + s[3] \div 4,
               (s[3] % 4) * 64 + s[4]>> \o Base64Decode(Drop(s, 4))

(***************************************************************************)
(* Configuration (checkpoint-splitting.config.ts).                         *)
(***************************************************************************)
MESSAGE_LEVEL == "message_level"
CONTENT_LEVEL == "content_level"
DefaultPrefix == "split"

(***************************************************************************)
(* CheckpointSizeService                                                   *)
(***************************************************************************)
DYNAMODB_OVERHEAD_BYTES == 1024

\* variant: the product with the Base64 factor rounded down
TruncatedDataSize(text) == (133 * ByteLength(text)) \div 100

\* _calculateDataSize: Math.ceil(utf8Size * 1.33) of the serialized data
CalculateDataSize(text) == (133 * ByteLength(text) + 99) \div 100

HasNonEmptyMessages(ch) == ch.hasMessages /\ Len(ch.messages) > 0

RECURSIVE SumOver(_, _)
SumOver(f, n) == IF n = 0 THEN 0 ELSE f[n] + SumOver(f, n - 1)

\* _estimateMessageLevelParts
EstimateMessageLevelParts(cp, maxChunkSize) ==
    LET cv == cp.channel_values
        parts == [i \in 1..Len(cv) |->
                    IF HasNonEmptyMessages(cv[i])
                    THEN CeilDiv(CalculateDataSize(StringifyMessages(cv[i].messages)),
                                 maxChunkSize)
                    ELSE 0]
    IN  1 + SumOver(parts, Len(cv))

\* variant: the estimate of the content-level strategy, whatever the strategy
EstimateByTotalSize(totalSize, cp, config) == CeilDiv(totalSize, config.maxChunkSize)

\* _estimatePartsNeeded
EstimatePartsNeeded(totalSize, cp, config) ==
    IF config.strategy = CONTENT_LEVEL THEN CeilDiv(totalSize, config.maxChunkSize)
    ELSE IF config.strategy = MESSAGE_LEVEL
    THEN EstimateMessageLevelParts(cp, config.maxChunkSize)
    ELSE 1

\* variant: a threshold that is reached rather than exceeded
ReachesThreshold(totalSize, maxSizeThreshold) == totalSize >= maxSizeThreshold

\* totalSize > this.config.maxSizeThreshold
ExceedsThreshold(totalSize, maxSizeThreshold) == totalSize > maxSizeThreshold

\* analyzeCheckpointSize
AnalyzeCheckpointSize(cp, md, config) ==
    LET checkpointSize == CalculateDataSize(StringifyCheckpoint(cp))
        metadataSize == CalculateDataSize(StringifyMetadata(md))
        overheadSize == DYNAMODB_OVERHEAD_BYTES
        totalSize == checkpointSize + metadataSize + overheadSize
    IN  [totalSize |-> totalSize,
         exceedsThreshold |-> ExceedsThreshold(totalSize, config.maxSizeThreshold),
         sizeBreakdown |-> [checkpoint |-> checkpointSize, metadata |-> metadataSize,
                            overhead |-> overheadSize],
         estimatedParts |-> EstimatePartsNeeded(totalSize, cp, config),
         largestComponent |-> IF checkpointSize > metadataSize
                              THEN "checkpoint" ELSE "metadata"]

\* JSON.stringify(message) does not throw; the message 0 stands for a value
\* it throws on (a BigInt, a cyclic object)
Serializable(message) == message > 0

\* variant: the messages are not sampled
CanSplitUnsampled(cp) ==
    IF \E i \in 1..Len(cp.channel_values) : HasNonEmptyMessages(cp.channel_values[i])
    THEN [canSplit |-> TRUE, reason |-> None]
    ELSE [canSplit |-> FALSE, reason |-> Some(Msg("No messages found to split", 0, ""))]

\* _canSplitMessageLevel: the channels in order, of each channel with
\* messages the first Math.min(messages.length, 5); the first message that
\* is not serializable ends the loops
CanSplitMessageLevel(cp) ==
    LET cv == cp.channel_values
        thrown == {p \in (1..Len(cv)) \X (1..5) :
                      /\ HasNonEmptyMessages(cv[p[1]])
                      /\ p[2] <= Min(Len(cv[p[1]].messages), 5)
                      /\ ~Serializable(cv[p[1]].messages[p[2]])}
        first == CHOOSE p \in thrown :
                     \A q \in thrown : p[1] < q[1] \/ (p[1] = q[1] /\ p[2] <= q[2])
    IN  IF thrown # {}
        THEN [canSplit |-> FALSE,
              reason |-> Some(Msg("Message a in channel b is not serializable",
                                  first[2] - 1, cv[first[1]].name))]
        ELSE IF \E i \in 1..Len(cv) : HasNonEmptyMessages(cv[i])
        THEN [canSplit |-> TRUE, reason |-> None]
        ELSE [canSplit |-> FALSE, reason |-> Some(Msg("No messages found to split", 0, ""))]

\* canSplitCheckpoint
CanSplitCheckpoint(cp, config) ==
    IF config.strategy = MESSAGE_LEVEL THEN CanSplitMessageLevel(cp)
    ELSE IF config.strategy = CONTENT_LEVEL THEN [canSplit |-> TRUE, reason |-> None]
    ELSE [canSplit |-> FALSE, reason |-> Some(Msg("Unknown splitting strategy", 0, ""))]

\* calculateChecksum: the truncated SHA-256, taken as collision free
CalculateChecksum(data) == [sha256 |-> data]

(***************************************************************************)
(* CheckpointSplittingService: splitting                                   *)
(***************************************************************************)
\* a stored item; op is a history field (the put that created the item)
StoredRecord(threadId, recordId, checkpoint, metadata, isSplit, sm, msd, csd) ==
    [threadId |-> threadId, recordId |-> recordId, checkpoint |-> checkpoint,
     metadata |-> metadata, isSplit |-> isSplit, splitMetadata |-> sm,
     messageSplitData |-> msd, contentSplitData |-> csd, op |-> 0]

\* _generateSplitRecordId: `${prefix}#${originalRecordId}#part#${NNNN}`
GenerateSplitRecordId(originalRecordId, partNumber, prefix) ==
    <<prefix>> \o originalRecordId \o <<"part">> \o PadStart(NumToText(partNumber), 4, "0")

\* _chunkMessages: the loop over the messages, from message i on
RECURSIVE ChunkMessagesFrom(_, _, _, _, _, _)
ChunkMessagesFrom(messages, i, chunks, currentChunk, currentSize, maxChunkSize) ==
    IF i > Len(messages)
    THEN IF Len(currentChunk) > 0 THEN Append(chunks, currentChunk) ELSE chunks
    ELSE LET message == messages[i]
             messageSize == ByteLength(NumToText(message))
         IN  IF currentSize + messageSize > maxChunkSize /\ Len(currentChunk) > 0
             THEN ChunkMessagesFrom(messages, i + 1, Append(chunks, currentChunk),
                                    <<message>>, messageSize, maxChunkSize)
             ELSE ChunkMessagesFrom(messages, i + 1, chunks,
                                    Append(currentChunk, message),
                                    currentSize + messageSize, maxChunkSize)

\* variant: the messages kept together in one chunk
ChunkMessagesTogether(messages, maxChunkSize) ==
    IF Len(messages) = 0 THEN <<>> ELSE <<messages>>

ChunkMessages(messages, maxChunkSize) ==
    ChunkMessagesFrom(messages, 1, <<>>, <<>>, 0, maxChunkSize)

\* _chunkString
RECURSIVE ChunkString(_, _)
ChunkString(str, maxChunkSize) ==
    IF Len(str) = 0 THEN <<>>
    ELSE <<SubSeq(str, 1, Min(maxChunkSize, Len(str)))>>
             \o ChunkString(Drop(str, Min(maxChunkSize, Len(str))), maxChunkSize)

\* the auxiliary records of one channel (the inner loop of _splitMessageLevel)
ChannelSplitRecords(threadId, recordId, ch, firstPartNumber, config) ==
    LET messages == ch.messages
        messageChunks == ChunkMessages(messages, config.maxChunkSize)
        per == CeilDiv(Len(messages), Len(messageChunks))
    IN  [k \in 1..Len(messageChunks) |->
            LET chunkIndex == k - 1
                partNumber == firstPartNumber + chunkIndex
                messagesData == StringifyMessages(messageChunks[k])
            IN  StoredRecord(threadId,
                    GenerateSplitRecordId(recordId, partNumber, config.splitRecordPrefix),
                    None, None, Some(TRUE),
                    Some([originalRecordId |-> recordId, totalParts |-> 0,
                          partNumber |-> partNumber, strategy |-> MESSAGE_LEVEL,
                          originalSize |-> 0, partSize |-> ByteLength(messagesData),
                          checksum |-> None]),
                    Some([channelName |-> ch.name,
                          startMessageIndex |-> chunkIndex * per,
                          endMessageIndex |-> Min((chunkIndex + 1) * per - 1,
                                                  Len(messages) - 1),
                          messagesData |-> messagesData,
                          checkpointMetadata |-> [totalMessages |-> Len(messages),
                                                  channelVersion |-> "1"]]),
                    None)]

\* the loop over the channels: the auxiliary records of channels i..
RECURSIVE MessageLevelAuxFrom(_, _, _, _, _, _)
MessageLevelAuxFrom(threadId, recordId, cv, i, partNumber, config) ==
    IF i > Len(cv) THEN <<>>
    ELSE IF HasNonEmptyMessages(cv[i])
    THEN LET recs == ChannelSplitRecords(threadId, recordId, cv[i], partNumber, config)
         IN  recs \o MessageLevelAuxFrom(threadId, recordId, cv, i + 1,
                                         partNumber + Len(recs), config)
    ELSE MessageLevelAuxFrom(threadId, recordId, cv, i + 1, partNumber, config)

\* cleanedChannelValues: the channels with their messages emptied
CleanedChannelValues(cv) ==
    [i \in 1..Len(cv) |->
        IF HasNonEmptyMessages(cv[i]) THEN [cv[i] EXCEPT !.messages = <<>>] ELSE cv[i]]

\* variant: a part count that leaves out the primary record
TotalPartsWithoutPrimary(records) == Len(records)

\* records.length + 1: the auxiliary records and the primary record
TotalParts(records) == Len(records) + 1

\* variant: primaryCheckpoint bound to the caller's object, without a copy
SameObject(original, fresh) == original

\* const primaryCheckpoint = { ...checkpoint }: the object primaryCheckpoint
\* is bound to is a new one
PrimaryCheckpointRef(original, fresh) == fresh

\* _splitMessageLevel, the objects it leaves: the caller's checkpoint, the
\* shallow copy (it starts with the caller's channel_values object), the
\* new cleanedChannelValues object, and the copy's channel_values field
\* after `primaryCheckpoint.channel_values = cleanedChannelValues`
SplitMessageLevelHeap(cp) ==
    LET primaryCheckpoint == PrimaryCheckpointRef("checkpoint", "primaryCheckpoint")
        entered == [checkpoint |-> [channel_values |-> "channel_values"],
                    primaryCheckpoint |-> [channel_values |-> ""],
                    channel_values |-> cp.channel_values,
                    cleanedChannelValues |-> CleanedChannelValues(cp.channel_values)]
        copied == [entered EXCEPT ![primaryCheckpoint] = entered["checkpoint"]]
    IN  [copied EXCEPT ![primaryCheckpoint].channel_values = "cleanedChannelValues"]

\* _splitMessageLevel
SplitMessageLevel(threadId, recordId, cp, md, config) ==
    LET records == MessageLevelAuxFrom(threadId, recordId, cp.channel_values, 1, 1, config)
        heap == SplitMessageLevelHeap(cp)
        primaryCheckpoint ==
            [channel_values |->
                heap[heap[PrimaryCheckpointRef("checkpoint", "primaryCheckpoint")]
                        .channel_values]]
        serializedCheckpoint == StringifyCheckpoint(primaryCheckpoint)
        serializedMetadata == StringifyMetadata(md)
        originalSize == ByteLength(serializedCheckpoint \o serializedMetadata)
        primaryRecord ==
            StoredRecord(threadId, recordId, Some(serializedCheckpoint),
                Some(serializedMetadata), Some(TRUE),
                Some([originalRecordId |-> recordId, totalParts |-> TotalParts(records),
                      partNumber |-> 0, strategy |-> MESSAGE_LEVEL,
                      originalSize |-> originalSize,
                      partSize |-> ByteLength(serializedCheckpoint \o serializedMetadata),
                      checksum |-> Some(CalculateChecksum(
                                      serializedCheckpoint \o serializedMetadata))]),
                None, None)
        all == <<primaryRecord>> \o records
    IN  [i \in 1..Len(all) |->
            [all[i] EXCEPT !.splitMetadata =
                Some([Get(@) EXCEPT !.totalParts = TotalParts(records),
                                    !.originalSize = originalSize])]]

\* _splitContentLevel
SplitContentLevel(threadId, recordId, cp, md, config) ==
    LET fullData == StringifyFull(cp, md)
        base64Data == Base64Encode(Utf8Bytes(fullData))
        originalSize == ByteLength(fullData)
        chunks == ChunkString(base64Data, config.maxChunkSize)
    IN  [k \in 1..Len(chunks) |->
            LET i == k - 1
            IN  StoredRecord(threadId,
                    IF i = 0 THEN recordId
                    ELSE GenerateSplitRecordId(recordId, i + 1, config.splitRecordPrefix),
                    None, None, Some(TRUE),
                    Some([originalRecordId |-> recordId, totalParts |-> Len(chunks),
                          partNumber |-> i + 1, strategy |-> CONTENT_LEVEL,
                          originalSize |-> originalSize,
                          partSize |-> ByteLength(chunks[k]),
                          checksum |-> Some(CalculateChecksum(chunks[k]))]),
                    None,
                    Some([chunkData |-> chunks[k], encoding |-> "base64"]))]

\* _performSplit
PerformSplit(threadId, recordId, cp, md, config) ==
    IF config.strategy = MESSAGE_LEVEL
    THEN SplitMessageLevel(threadId, recordId, cp, md, config)
    ELSE SplitContentLevel(threadId, recordId, cp, md, config)

(***************************************************************************)
(* The store (the Dynamoose model): a set of items, at most one per        *)
(* (threadId, recordId).                                                   *)
(***************************************************************************)
\* checkpointsModel.get({ threadId, recordId })
StoreGet(st, threadId, recordId) ==
    IF \E r \in st : r.threadId = threadId /\ r.recordId = recordId
    THEN Some(CHOOSE r \in st : r.threadId = threadId /\ r.recordId = recordId)
    ELSE None

\* checkpointsModel.create(record): unconditional upsert at the record's key
StoreCreate(st, rec) ==
    {r \in st : ~(r.threadId = rec.threadId /\ r.recordId = rec.recordId)} \cup {rec}

\* checkpointsModel.delete({ threadId, recordId }): a missing item is no error
StoreDelete(st, threadId, recordId) ==
    {r \in st : ~(r.threadId = threadId /\ r.recordId = recordId)}

(***************************************************************************)
(* CheckpointSplittingService: reassembly                                  *)
(***************************************************************************)
\* `${prefix}: ${error.message}`
Wrap(prefix, m) == [m EXCEPT !.prefix = <<prefix>> \o @]
Thrown(m) == [ok |-> FALSE, error |-> m, data |-> None]
Returned(d) == [ok |-> TRUE, error |-> Msg("", 0, 0), data |-> Some(d)]

\* (a.splitMetadata?.partNumber || 0)
PartNumberOrZero(rec) ==
    IF IsSome(rec.splitMetadata) THEN Get(rec.splitMetadata).partNumber ELSE 0

\* Array.prototype.sort with the partNumber comparator (stable)
RECURSIVE InsertByPartNumber(_, _)
InsertByPartNumber(sorted, rec) ==
    IF Len(sorted) = 0 THEN <<rec>>
    ELSE IF PartNumberOrZero(sorted[Len(sorted)]) <= PartNumberOrZero(rec)
    THEN Append(sorted, rec)
    ELSE Append(InsertByPartNumber(SubSeq(sorted, 1, Len(sorted) - 1), rec),
                sorted[Len(sorted)])

\* variant: the parts used in the order fetched
AsFetched(parts) == parts

RECURSIVE SortByPartNumber(_)
SortByPartNumber(parts) ==
    IF Len(parts) = 0 THEN <<>>
    ELSE InsertByPartNumber(SortByPartNumber(SubSeq(parts, 1, Len(parts) - 1)),
                            parts[Len(parts)])

\* variant: the gather loop reading one key further
GatherPartRecordIdShifted(recordId, partNum) ==
    GenerateSplitRecordId(recordId, partNum + 1, "split")

\* the key of part partNum that _gatherSplitParts reads
GatherPartRecordId(recordId, partNum) == GenerateSplitRecordId(recordId, partNum, "split")

\* the loop of _gatherSplitParts from part partNum on; the clock passes
\* endTime right before the check of iteration deadlineAt (0: never);
\* rejecting holds the record ids whose get rejects: the loop catches the
\* error, logs it and goes on to the next part
RECURSIVE GatherFrom(_, _, _, _, _, _, _, _)
GatherFrom(st, threadId, recordId, totalParts, partNum, parts, deadlineAt, rejecting) ==
    IF partNum >= totalParts THEN Returned(SortByPartNumber(parts))
    ELSE IF deadlineAt # 0 /\ partNum >= deadlineAt
    THEN Thrown(Msg("Timeout while gathering split parts", 0, 0))
    ELSE LET partRecordId == GatherPartRecordId(recordId, partNum)
             partRecord == IF partRecordId \in rejecting THEN None
                           ELSE StoreGet(st, threadId, partRecordId)
         IN  GatherFrom(st, threadId, recordId, totalParts, partNum + 1,
                        parts \o partRecord, deadlineAt, rejecting)

\* _gatherSplitParts
GatherSplitParts(st, threadId, recordId, splitMetadata, deadlineAt, rejecting) ==
    LET primaryRecord == StoreGet(st, threadId, recordId)
    IN  IF ~IsSome(splitMetadata)
        THEN Thrown(Msg("Cannot read properties of undefined (reading 'totalParts')", 0, 0))
        ELSE IF recordId \in rejecting
        THEN Thrown(Msg("store error", 0, 0))
        ELSE GatherFrom(st, threadId, recordId, Get(splitMetadata).totalParts, 1,
                        primaryRecord, deadlineAt, rejecting)

\* variant: no part is taken to carry a checksum
ChecksumIgnored(part) == FALSE

\* part.splitMetadata?.checksum
HasChecksum(part) == IsSome(part.splitMetadata) /\ IsSome(Get(part.splitMetadata).checksum)

\* the loop of _reassembleMessageLevel over the parts, from part i on;
\* byChannel maps a channel name to the messages gathered for it
RECURSIVE CollectMessages(_, _, _, _)
CollectMessages(parts, i, byChannel, validateChecksums) ==
    IF i > Len(parts) THEN Returned(byChannel)
    ELSE LET part == parts[i]
         IN  IF ~(IsSome(part.messageSplitData) /\
                    ~(IsSome(part.splitMetadata) /\ Get(part.splitMetadata).partNumber = 0))
             THEN CollectMessages(parts, i + 1, byChannel, validateChecksums)
             ELSE LET msd == Get(part.messageSplitData)
                      messages == JsonParseMessages(msd.messagesData)
                  IN  IF validateChecksums /\ HasChecksum(part) /\
                           CalculateChecksum(msd.messagesData) #
                               Get(Get(part.splitMetadata).checksum)
                      THEN Thrown(Msg("Checksum mismatch for part",
                                      Get(part.splitMetadata).partNumber, 0))
                      ELSE IF ~IsSome(messages)
                      THEN Thrown(Msg("Unexpected token in JSON", 0, 0))
                      ELSE CollectMessages(parts, i + 1,
                               [byChannel EXCEPT ![msd.channelName] = @ \o Get(messages)],
                               validateChecksums)

\* "Restore messages to channels"; gathered names the channels that got messages
RestoreMessages(cp, byChannel, gathered) ==
    LET cv == cp.channel_values
    IN  [cp EXCEPT !.channel_values =
            [i \in 1..Len(cv) |->
                IF cv[i].name \in gathered /\ cv[i].hasMessages
                THEN [cv[i] EXCEPT !.messages = byChannel[cv[i].name]]
                ELSE cv[i]]]

\* _reassembleMessageLevel
ReassembleMessageLevel(parts, validateChecksums) ==
    LET primaries == {i \in 1..Len(parts) :
                         IsSome(parts[i].splitMetadata) /\
                         Get(parts[i].splitMetadata).partNumber = 0}
    IN  IF primaries = {} THEN Thrown(Msg("Primary part not found or incomplete", 0, 0))
        ELSE LET primaryPart == parts[CHOOSE i \in primaries : \A j \in primaries : i <= j]
             IN  IF ~IsSome(primaryPart.checkpoint) \/ ~IsSome(primaryPart.metadata)
                 THEN Thrown(Msg("Primary part not found or incomplete", 0, 0))
                 ELSE LET checkpoint == JsonParseCheckpoint(Get(primaryPart.checkpoint))
                          metadata == JsonParseMetadata(Get(primaryPart.metadata))
                          names == {ChannelNames[i] : i \in 1..Len(ChannelNames)}
                          collected == CollectMessages(parts, 1, [n \in names |-> <<>>],
                                                       validateChecksums)
                          gathered ==
                              {Get(parts[i].messageSplitData).channelName :
                                  i \in {j \in 1..Len(parts) :
                                           IsSome(parts[j].messageSplitData) /\
                                           ~(IsSome(parts[j].splitMetadata) /\
                                             Get(parts[j].splitMetadata).partNumber = 0)}}
                      IN  IF ~IsSome(checkpoint) \/ ~IsSome(metadata)
                          THEN Thrown(Msg("Unexpected token in JSON", 0, 0))
                          ELSE IF ~collected.ok THEN collected
                          ELSE Returned([checkpoint |->
                                            RestoreMessages(Get(checkpoint),
                                                Get(collected.data), gathered),
                                         metadata |-> Get(metadata)])

\* the loop of _reassembleContentLevel over the sorted parts, from part i on
RECURSIVE ConcatChunks(_, _, _, _)
ConcatChunks(sortedParts, i, reassembledBase64, validateChecksums) ==
    IF i > Len(sortedParts) THEN Returned(reassembledBase64)
    ELSE LET part == sortedParts[i]
         IN  IF ~IsSome(part.contentSplitData) \/
                  Len(Get(part.contentSplitData).chunkData) = 0
             THEN Thrown(Msg("Part missing chunk data", PartNumberOrZero(part), 0))
             ELSE IF validateChecksums /\ HasChecksum(part) /\
                       CalculateChecksum(Get(part.contentSplitData).chunkData) #
                           Get(Get(part.splitMetadata).checksum)
             THEN Thrown(Msg("Checksum mismatch for part",
                             Get(part.splitMetadata).partNumber, 0))
             ELSE ConcatChunks(sortedParts, i + 1,
                      reassembledBase64 \o Get(part.contentSplitData).chunkData,
                      validateChecksums)

\* _reassembleContentLevel
ReassembleContentLevel(parts, validateChecksums) ==
    LET base64 == ConcatChunks(SortByPartNumber(parts), 1, <<>>, validateChecksums)
    IN  IF ~base64.ok THEN base64
        ELSE LET decodedData == Utf8Text(Base64Decode(Get(base64.data)))
                 parsed == JsonParseFull(decodedData)
             IN  IF IsSome(parsed) THEN Returned(Get(parsed))
                 ELSE Thrown(Msg("Unexpected token in JSON", 0, 0))

\* _performReassembly
PerformReassembly(parts, strategy, validateChecksums) ==
    IF strategy = MESSAGE_LEVEL THEN ReassembleMessageLevel(parts, validateChecksums)
    ELSE IF strategy = CONTENT_LEVEL THEN ReassembleContentLevel(parts, validateChecksums)
    ELSE Thrown(Msg("Unknown reassembly strategy", 0, 0))

\* a ReassemblyResult; gets is a history field, the number of store reads made
ReassemblyResult(success, data, warnings, partsReassembled, totalExpectedParts, gets) ==
    [success |-> success, data |-> data, warnings |-> warnings,
     partsReassembled |-> partsReassembled, totalExpectedParts |-> totalExpectedParts,
     gets |-> gets]

ReassemblyFailed(m, gets) ==
    ReassemblyResult(FALSE, None, <<Wrap("Reassembly failed", m)>>, 0, 0, gets)

\* the store reads of _gatherSplitParts: the primary, then one per iteration reached
GatherReads(totalParts, deadlineAt) ==
    1 + (IF deadlineAt = 0 THEN Max(totalParts - 1, 0)
         ELSE Min(deadlineAt - 1, Max(totalParts - 1, 0)))

\* variant: a record counts as split unless isSplit is false
IsSplitUnlessFalse(primaryRecord) ==
    IsSome(primaryRecord) /\ Get(primaryRecord).isSplit # Some(FALSE)

\* primaryRecord?.isSplit
IsSplitRecord(primaryRecord) ==
    IsSome(primaryRecord) /\ Get(primaryRecord).isSplit = Some(TRUE)

\* reassembleCheckpoint; the get of a record id in rejecting rejects
ReassembleCheckpoint(st, threadId, recordId, options, deadlineAt, rejecting) ==
    LET primaryRecord == StoreGet(st, threadId, recordId)
    IN  IF recordId \in rejecting
        THEN ReassemblyFailed(Msg("store error", 0, 0), 1)
        ELSE IF ~IsSplitRecord(primaryRecord)
        THEN ReassemblyResult(FALSE, None, <<Msg("Record is not split", 0, 0)>>, 0, 1, 1)
        ELSE LET splitMetadata == Get(primaryRecord).splitMetadata
                 gathered == GatherSplitParts(st, threadId, recordId, splitMetadata,
                                              deadlineAt, rejecting)
             IN  IF ~gathered.ok
                 THEN ReassemblyFailed(gathered.error,
                          IF IsSome(splitMetadata)
                          THEN 1 + GatherReads(Get(splitMetadata).totalParts, deadlineAt)
                          ELSE 2)
                 ELSE LET allParts == Get(gathered.data)
                          sm == Get(splitMetadata)
                          gets == 1 + GatherReads(sm.totalParts, deadlineAt)
                          warnings == IF Len(allParts) # sm.totalParts
                                      THEN <<Msg("Found a/b parts", Len(allParts),
                                                 sm.totalParts)>>
                                      ELSE <<>>
                          reassembledData == PerformReassembly(allParts, sm.strategy,
                                                               options.validateChecksums)
                      IN  IF ~reassembledData.ok
                          THEN ReassemblyFailed(reassembledData.error, gets)
                          ELSE ReassemblyResult(TRUE, reassembledData.data, warnings,
                                                Len(allParts), sm.totalParts, gets)

(***************************************************************************)
(* The system: callers of the adapter over one store.                      *)
(***************************************************************************)
VARIABLES
    config,      \* the checkpointSplitting configuration of the process
    workload,    \* the checkpoints the callers put
    store,       \* the items of the checkpoints table
    writers,     \* per caller: the position of its put
    puts,        \* number of puts started
    faults,      \* number of store calls that have failed
    lastOp,      \* the last completed read or delete operation and its outcome
    foreignRemoved,  \* history: a rollback deleted an item created by another put
    lost         \* history: the record ids removed other than by a rollback

vars == <<config, workload, store, writers, puts, faults, lastOp, foreignRemoved, lost>>

Threads == {"t1", "t2"}
\* `checkpoint#${checkpoint_ns}#${checkpoint.id}`
LogicalRecordId(id) == <<"checkpoint", "ns", id>>
PutThread == "t1"
PutRecordId == LogicalRecordId("c1")
LegacyRecordId == LogicalRecordId("c0")
WriteLogRecordId == <<"write", "ns", "c1", "task", "0">>
PutMetadata == [source |-> 5]

SplitConfig(enabled, threshold, strategy, chunk, prefix, retries) ==
    [enabled |-> enabled, maxSizeThreshold |-> threshold, strategy |-> strategy,
     maxChunkSize |-> chunk, splitRecordPrefix |-> prefix, maxRetries |-> retries]

ConfigInputs ==
    { SplitConfig(TRUE, 1000, MESSAGE_LEVEL, 2, DefaultPrefix, 1),
      SplitConfig(TRUE, 1050, MESSAGE_LEVEL, 3, DefaultPrefix, 2),
      SplitConfig(TRUE, 1000, MESSAGE_LEVEL, 2, "shard", 1),
      SplitConfig(TRUE, 1000, MESSAGE_LEVEL, 2, DefaultPrefix, 3),
      SplitConfig(TRUE, 1000, CONTENT_LEVEL, 16, DefaultPrefix, 2),
      SplitConfig(TRUE, 1050, CONTENT_LEVEL, 40, DefaultPrefix, 1),
      SplitConfig(FALSE, 1000, MESSAGE_LEVEL, 2, DefaultPrefix, 1) }

\* a record written without the splitter: isSplit is FALSE, or absent in
\* records older than the splitter
PlainRecord(threadId, recordId, cp, md, isSplit) ==
    StoredRecord(threadId, recordId, Some(StringifyCheckpoint(cp)),
                 Some(StringifyMetadata(md)), isSplit, None, None, None)

LegacyCheckpoint == [channel_values |-> <<MsgChannel("a", <<1>>)>>]

InitialStore ==
    { PlainRecord("t1", LegacyRecordId, LegacyCheckpoint, PutMetadata, None),
      StoredRecord("t1", WriteLogRecordId, None, None, None, None, None, None),
      PlainRecord("t2", LegacyRecordId, LegacyCheckpoint, PutMetadata, Some(FALSE)) }

NoError == Msg("", 0, 0)
IdleWriter ==
    [pc |-> "idle", count |-> 0, putNo |-> 0, checkpoint |-> None, records |-> <<>>, idx |-> 0,
     retries |-> 0, recordIds |-> <<>>, errors |-> <<>>, rb |-> 0,
     rbFailed |-> FALSE, attempts |-> <<>>, directWrites |-> 0,
     wasSplit |-> FALSE, error |-> NoError, analysed |-> FALSE, returned |-> None,
     expired |-> FALSE, threadId |-> PutThread, callerCheckpoint |-> None,
     analysis |-> None, deletes |-> <<>>, sleeps |-> <<>>, before |-> None]

NoOp ==
    [op |-> "none", threadId |-> "", recordId |-> <<>>, deadlineAt |-> 0,
     result |-> ReassemblyResult(FALSE, None, <<>>, 0, 0, 0),
     tuple |-> None, reassembleCalls |-> 0, items |-> <<>>, ok |-> TRUE,
     others |-> {}, found |-> 0, raised |-> None, input |-> None, output |-> None,
     rejecting |-> {}]

TypeOK ==
    /\ config \in ConfigInputs
    /\ workload \subseteq CheckpointInputs
    /\ puts \in 0..(MaxPuts * Cardinality(DOMAIN writers))
    /\ faults \in 0..MaxFaults
    /\ foreignRemoved \in BOOLEAN
    /\ \A w \in DOMAIN writers :
          writers[w].pc \in {"idle", "storing", "rollback", "direct", "committed", "failed",
                                 "crashed"}

Init ==
    /\ config \in ConfigInputs
    /\ workload = PutInputs
    /\ store = InitialStore
    /\ writers = [w \in {"w1"} |-> IdleWriter]
    /\ puts = 0
    /\ faults = 0
    /\ lastOp = NoOp
    /\ foreignRemoved = FALSE
    /\ lost = {}

Resting(w) == writers[w].pc \in {"idle", "committed", "failed", "crashed"}
Quiet == \A w \in DOMAIN writers : Resting(w)

\* the item as created by put number n
Stamped(rec, n) == [rec EXCEPT !.op = n]

\* variant: an oversize checkpoint is split whether or not it can be
ShouldSplitWhenOversize(enabled, exceedsThreshold, canSplit) ==
    enabled /\ exceedsThreshold

\* splitCheckpointIfNeeded: the three early returns passed
ShouldSplit(enabled, exceedsThreshold, canSplit) ==
    enabled /\ exceedsThreshold /\ canSplit

\* the value splitCheckpointIfNeeded resolves with
SplitOutcome(wasSplit, recordIds) == [wasSplit |-> wasSplit, recordIds |-> recordIds]

\* put (adapter) up to its first store call: the record id is derived, then
\* splitCheckpointIfNeeded analyses the size and performs the split; a
\* checkpoint that is not split is left to the adapter's direct write;
\* callerCheckpoint is the object the caller passed, as the call leaves it;
\* before is a history field (the item at the key when the put began, kept
\* when no other put was under way then)
Put(w, cp) ==
    /\ Resting(w)
    /\ writers[w].count < MaxPuts
    /\ LET analysis == AnalyzeCheckpointSize(cp, PutMetadata, config)
           canSplit == CanSplitCheckpoint(cp, config)
           split == ShouldSplit(config.enabled, analysis.exceedsThreshold,
                                canSplit.canSplit)
           started == [IdleWriter EXCEPT !.putNo = puts + 1, !.checkpoint = Some(cp),
                                        !.before =
                                            IF \A o \in DOMAIN writers \ {w} : Resting(o)
                                            THEN StoreGet(store, writers[w].threadId,
                                                          PutRecordId)
                                            ELSE None,
                                        !.count = writers[w].count + 1,
                                        !.analysed = config.enabled,
                                        !.analysis = IF config.enabled
                                                     THEN Some(analysis) ELSE None,
                                        !.threadId = writers[w].threadId]
       IN  writers' = [writers EXCEPT ![w] =
               IF split
               THEN LET records == PerformSplit(writers[w].threadId, PutRecordId, cp,
                                                PutMetadata, config)
                        heap == SplitMessageLevelHeap(cp)
                    IN  [started EXCEPT !.pc = "storing", !.records = records,
                                        !.idx = 1,
                                        !.callerCheckpoint =
                                            IF config.strategy = MESSAGE_LEVEL
                                            THEN Some([channel_values |->
                                                     heap[heap.checkpoint.channel_values]])
                                            ELSE Some(cp),
                                        !.attempts = [i \in 1..Len(records) |-> 0]]
               ELSE [started EXCEPT !.pc = "direct",
                                    !.callerCheckpoint = Some(cp),
                                    !.returned = Some(SplitOutcome(FALSE,
                                                          <<PutRecordId>>))]]
    /\ puts' = puts + 1
    /\ lastOp' = NoOp
    /\ UNCHANGED <<config, workload, lost, store, faults, foreignRemoved>>

\* variant: the id of a stored record put in front of the ids stored before
CreateOkPrepending(w) ==
    LET wr == writers[w]
        record == wr.records[wr.idx]
        last == wr.idx = Len(wr.records)
    IN  /\ wr.pc = "storing"
        /\ store' = StoreCreate(store, Stamped(record, wr.putNo))
        /\ writers' = [writers EXCEPT ![w] =
               [wr EXCEPT !.recordIds = <<record.recordId>> \o @,
                          !.attempts[wr.idx] = @ + 1,
                          !.idx = IF last THEN wr.idx ELSE wr.idx + 1,
                          !.retries = 0,
                          !.pc = IF last THEN "committed" ELSE "storing",
                          !.wasSplit = last,
                          !.expired = IF last THEN FALSE ELSE @,
                          !.returned = IF last
                                       THEN Some(SplitOutcome(TRUE,
                                                <<record.recordId>> \o wr.recordIds))
                                       ELSE None]]
        /\ lastOp' = NoOp
        /\ UNCHANGED <<config, workload, lost, puts, faults, foreignRemoved>>

\* _storeSplitRecords: checkpointsModel.create(record) resolves
CreateOk(w) ==
    LET wr == writers[w]
        record == wr.records[wr.idx]
        last == wr.idx = Len(wr.records)
    IN  /\ wr.pc = "storing"
        /\ store' = StoreCreate(store, Stamped(record, wr.putNo))
        /\ writers' = [writers EXCEPT ![w] =
               [wr EXCEPT !.recordIds = Append(@, record.recordId),
                          !.attempts[wr.idx] = @ + 1,
                          !.idx = IF last THEN wr.idx ELSE wr.idx + 1,
                          !.retries = 0,
                          !.pc = IF last THEN "committed" ELSE "storing",
                          !.wasSplit = last,
                          !.expired = IF last THEN FALSE ELSE @,
                          !.returned = IF last
                                       THEN Some(SplitOutcome(TRUE,
                                                Append(wr.recordIds, record.recordId)))
                                       ELSE None]]
        /\ lastOp' = NoOp
        /\ UNCHANGED <<config, workload, lost, puts, faults, foreignRemoved>>

\* the wall clock passes config.operationTimeout while a shard-set write is
\* storing; expired is a history field of the write, nothing reads it
OperationTimeoutElapses(w) ==
    /\ writers[w].pc = "storing"
    /\ ~writers[w].expired
    /\ writers' = [writers EXCEPT ![w].expired = TRUE]
    /\ UNCHANGED <<config, workload, store, puts, faults, lastOp, foreignRemoved, lost>>

\* the process stops between two shards of a shard-set write: some shards
\* are stored, the others are not, and no rollback runs
Crash(w) ==
    LET wr == writers[w]
    IN  /\ wr.pc = "storing"
        /\ Len(wr.recordIds) >= 1
        /\ wr.retries = 0
        /\ faults = 0
        /\ writers' = [writers EXCEPT ![w] = [wr EXCEPT !.pc = "crashed",
                                                        !.expired = FALSE]]
        /\ UNCHANGED <<config, workload, store, puts, faults, lastOp, foreignRemoved,
                       lost>>

\* variant: the first error collected
FirstError(errors) == errors[1]

\* errors[errors.length - 1]
LastError(errors) == errors[Len(errors)]

\* the Error thrown by _storeSplitRecords, as rethrown by splitCheckpointIfNeeded
SplittingFailed(maxRetries, storeError) ==
    Wrap("Checkpoint splitting failed",
         Wrap("Failed to store split record after b retries",
              [storeError EXCEPT !.b = maxRetries]))

\* variant: one more attempt than maxRetries before the write gives up
CreateFailOnceMore(w) ==
    LET wr == writers[w]
        retries == wr.retries + 1
        error == Msg("store error a", faults + 1, 0)
        exhausted == retries > config.maxRetries
    IN  /\ wr.pc = "storing"
        /\ faults < MaxFaults
        /\ faults' = faults + 1
        /\ writers' = [writers EXCEPT ![w] =
               [wr EXCEPT !.retries = retries,
                          !.attempts[wr.idx] = @ + 1,
                          !.errors = Append(@, error),
                          !.expired = IF exhausted /\ Len(wr.recordIds) = 0
                                      THEN FALSE ELSE @,
                          !.rb = IF exhausted THEN 1 ELSE 0,
                          !.pc = IF ~exhausted THEN "storing"
                                 ELSE IF Len(wr.recordIds) = 0 THEN "failed"
                                 ELSE "rollback",
                          !.error = IF exhausted /\ Len(wr.recordIds) = 0
                                    THEN SplittingFailed(config.maxRetries,
                                             LastError(Append(wr.errors, error)))
                                    ELSE NoError]]
        /\ lastOp' = NoOp
        /\ UNCHANGED <<config, workload, lost, store, puts, foreignRemoved>>

\* variant: a delay awaited after the last failed attempt as well
CreateFailSleepingLast(w) ==
    LET wr == writers[w]
        retries == wr.retries + 1
        error == Msg("store error a", faults + 1, 0)
        exhausted == retries >= config.maxRetries
    IN  /\ wr.pc = "storing"
        /\ faults < MaxFaults
        /\ faults' = faults + 1
        /\ writers' = [writers EXCEPT ![w] =
               [wr EXCEPT !.retries = retries,
                          !.attempts[wr.idx] = @ + 1,
                          !.errors = Append(@, error),
                          !.sleeps = IF retries <= config.maxRetries
                                     THEN Append(@, [idx |-> wr.idx, after |-> retries,
                                                     ms |-> (2 ^ retries) * 100])
                                     ELSE @,
                          !.expired = IF exhausted /\ Len(wr.recordIds) = 0
                                      THEN FALSE ELSE @,
                          !.rb = IF exhausted THEN 1 ELSE 0,
                          !.pc = IF ~exhausted THEN "storing"
                                 ELSE IF Len(wr.recordIds) = 0 THEN "failed"
                                 ELSE "rollback",
                          !.error = IF exhausted /\ Len(wr.recordIds) = 0
                                    THEN SplittingFailed(config.maxRetries,
                                             LastError(Append(wr.errors, error)))
                                    ELSE NoError]]
        /\ lastOp' = NoOp
        /\ UNCHANGED <<config, workload, lost, store, puts, foreignRemoved>>

\* _storeSplitRecords: checkpointsModel.create(record) rejects; sleeps is a
\* history field (the delays awaited: the shard, the failed attempts on it
\* so far, the milliseconds)
CreateFail(w) ==
    LET wr == writers[w]
        retries == wr.retries + 1
        error == Msg("store error a", faults + 1, 0)
        exhausted == retries >= config.maxRetries
    IN  /\ wr.pc = "storing"
        /\ faults < MaxFaults
        /\ faults' = faults + 1
        /\ writers' = [writers EXCEPT ![w] =
               [wr EXCEPT !.retries = retries,
                          !.attempts[wr.idx] = @ + 1,
                          !.errors = Append(@, error),
                          !.sleeps = IF retries < config.maxRetries
                                     THEN Append(@, [idx |-> wr.idx, after |-> retries,
                                                     ms |-> (2 ^ retries) * 100])
                                     ELSE @,
                          !.expired = IF exhausted /\ Len(wr.recordIds) = 0
                                      THEN FALSE ELSE @,
                          !.rb = IF exhausted THEN 1 ELSE 0,
                          !.pc = IF ~exhausted THEN "storing"
                                 ELSE IF Len(wr.recordIds) = 0 THEN "failed"
                                 ELSE "rollback",
                          !.error = IF exhausted /\ Len(wr.recordIds) = 0
                                    THEN SplittingFailed(config.maxRetries,
                                             LastError(Append(wr.errors, error)))
                                    ELSE NoError]]
        /\ lastOp' = NoOp
        /\ UNCHANGED <<config, workload, lost, store, puts, foreignRemoved>>

\* the writer after the delete of recordIds[rb] has settled; deletes is a
\* history field (the deletes the rollback has called and how each ended)
RolledBackOne(wr, failed) ==
    LET last == wr.rb = Len(wr.recordIds)
    IN  [wr EXCEPT !.rb = IF last THEN wr.rb ELSE wr.rb + 1,
                   !.rbFailed = @ \/ failed,
                   !.deletes = Append(@, [recordId |-> wr.recordIds[wr.rb],
                                          ok |-> ~failed]),
                   !.expired = IF last THEN FALSE ELSE @,
                   !.pc = IF last THEN "failed" ELSE "rollback",
                   !.error = IF last
                             THEN SplittingFailed(config.maxRetries, LastError(wr.errors))
                             ELSE NoError]

\* variant: a rollback that walks the stored ids without deleting
RollbackDeleteKeeps(w) ==
    /\ writers[w].pc = "rollback"
    /\ writers' = [writers EXCEPT ![w] = RolledBackOne(writers[w], FALSE)]
    /\ lastOp' = NoOp
    /\ UNCHANGED <<config, workload, lost, store, puts, faults, foreignRemoved>>

\* _rollbackStoredRecords: checkpointsModel.delete resolves
RollbackDeleteOk(w) ==
    LET wr == writers[w]
        recordId == wr.recordIds[wr.rb]
        present == StoreGet(store, wr.threadId, recordId)
    IN  /\ wr.pc = "rollback"
        /\ store' = StoreDelete(store, wr.threadId, recordId)
        /\ foreignRemoved' =
               (foreignRemoved \/ (IsSome(present) /\ Get(present).op # wr.putNo))
        /\ writers' = [writers EXCEPT ![w] = RolledBackOne(wr, FALSE)]
        /\ lastOp' = NoOp
        /\ UNCHANGED <<config, workload, lost, puts, faults>>

\* variant: a delete that rejects ends the rollback and is what the
\* operation raises
RollbackDeleteRaises(w) ==
    LET wr == writers[w]
    IN  /\ wr.pc = "rollback"
        /\ faults < MaxFaults
        /\ faults' = faults + 1
        /\ writers' = [writers EXCEPT ![w] =
               [wr EXCEPT !.pc = "failed", !.rbFailed = TRUE, !.expired = FALSE,
                          !.deletes = Append(@, [recordId |-> wr.recordIds[wr.rb],
                                                 ok |-> FALSE]),
                          !.error = Wrap("Checkpoint splitting failed",
                                         Msg("store error a", faults + 1, 0))]]
        /\ lastOp' = NoOp
        /\ UNCHANGED <<config, workload, lost, store, puts, foreignRemoved>>

\* _rollbackStoredRecords: checkpointsModel.delete rejects (logged, skipped)
RollbackDeleteFail(w) ==
    LET wr == writers[w]
    IN  /\ wr.pc = "rollback"
        /\ faults < MaxFaults
        /\ faults' = faults + 1
        /\ writers' = [writers EXCEPT ![w] = RolledBackOne(wr, TRUE)]
        /\ lastOp' = NoOp
        /\ UNCHANGED <<config, workload, lost, store, puts, foreignRemoved>>

\* put (adapter): the direct write of a checkpoint that was not split
DirectWriteOk(w) ==
    LET wr == writers[w]
    IN  /\ wr.pc = "direct"
        /\ store' = StoreCreate(store,
               Stamped(PlainRecord(wr.threadId, PutRecordId, Get(wr.checkpoint),
                                   PutMetadata, Some(FALSE)), wr.putNo))
        /\ writers' = [writers EXCEPT ![w] =
               [wr EXCEPT !.pc = "committed", !.directWrites = @ + 1]]
        /\ lastOp' = NoOp
        /\ UNCHANGED <<config, workload, lost, puts, faults, foreignRemoved>>

\* put (adapter): the direct write rejects and put rejects with its error
DirectWriteFail(w) ==
    LET wr == writers[w]
    IN  /\ wr.pc = "direct"
        /\ faults < MaxFaults
        /\ faults' = faults + 1
        /\ writers' = [writers EXCEPT ![w] =
               [wr EXCEPT !.pc = "failed", !.directWrites = @ + 1,
                          !.error = Msg("store error a", faults + 1, 0)]]
        /\ lastOp' = NoOp
        /\ UNCHANGED <<config, workload, lost, store, puts, foreignRemoved>>

ReadOptions == [validateChecksums |-> TRUE]
\* the iterations of the gather loop before whose deadline check the clock
\* may pass the deadline (0: it does not)
Deadlines == 0..MaxDeadline

\* a read is observed from a state left by a write or a delete: read again
\* from the state it leaves, it has the same outcome
Unobserved == lastOp.op \in {"none", "deleteThread"}

\* reassembleCheckpoint called on the store at rest
Reassemble(threadId, recordId, deadlineAt, rejecting) ==
    /\ Quiet
    /\ Unobserved
    /\ lastOp' = [NoOp EXCEPT !.op = "reassemble", !.threadId = threadId,
                              !.recordId = recordId, !.deadlineAt = deadlineAt,
                              !.rejecting = rejecting,
                              !.reassembleCalls = 1,
                              !.result = ReassembleCheckpoint(store, threadId, recordId,
                                             ReadOptions, deadlineAt, rejecting)]
    /\ UNCHANGED <<config, workload, store, writers, puts, faults, foreignRemoved, lost>>

\* reassembleCheckpoint called while a shard-set write is storing: all its
\* gets fall between two creates of the write
ReassembleRacing(threadId, recordId) ==
    /\ \E w \in DOMAIN writers : writers[w].pc = "storing"
    /\ lastOp.op # "reassembleRacing"
    /\ lastOp' = [NoOp EXCEPT !.op = "reassembleRacing", !.threadId = threadId,
                              !.recordId = recordId,
                              !.reassembleCalls = 1,
                              !.result = ReassembleCheckpoint(store, threadId, recordId,
                                             ReadOptions, 0, {})]
    /\ UNCHANGED <<config, workload, store, writers, puts, faults, foreignRemoved, lost>>

\* the tuple decoded from a record that is not split
DecodePlain(rec) ==
    IF IsSome(rec.checkpoint) /\ IsSome(rec.metadata)
         /\ IsSome(JsonParseCheckpoint(Get(rec.checkpoint)))
         /\ IsSome(JsonParseMetadata(Get(rec.metadata)))
    THEN Some([checkpoint |-> Get(JsonParseCheckpoint(Get(rec.checkpoint))),
               metadata |-> Get(JsonParseMetadata(Get(rec.metadata)))])
    ELSE None

\* getTuple (adapter) after reassembleCheckpoint has resolved with result
SplitTupleOutcome(result) ==
    [tuple |-> IF result.success THEN result.data ELSE None,
     reassembleCalls |-> 1, result |-> result,
     raised |-> IF result.success THEN None
                ELSE Some(Msg("Failed to reassemble split checkpoint", 0, 0))]

\* getTuple (adapter): the record at the logical key, reassembled when
\* split; a reassembly that ends with success=false makes getTuple reject
GetTupleOutcome(st, threadId, recordId, deadlineAt) ==
    LET found == StoreGet(st, threadId, recordId)
    IN  IF ~IsSome(found)
        THEN [tuple |-> None, reassembleCalls |-> 0,
              result |-> NoOp.result, raised |-> None]
        ELSE IF Get(found).isSplit # Some(TRUE)
        THEN [tuple |-> DecodePlain(Get(found)), reassembleCalls |-> 0,
              result |-> NoOp.result, raised |-> None]
        ELSE SplitTupleOutcome(ReassembleCheckpoint(st, threadId, recordId,
                                                    ReadOptions, deadlineAt, {}))

\* the record of a getTuple that ended with outcome out
GetTupleDone(threadId, recordId, deadlineAt, out) ==
    [NoOp EXCEPT !.op = "getTuple", !.threadId = threadId,
                 !.recordId = recordId, !.deadlineAt = deadlineAt,
                 !.tuple = out.tuple,
                 !.reassembleCalls = out.reassembleCalls,
                 !.result = out.result,
                 !.raised = out.raised]

GetTuple(threadId, recordId, deadlineAt) ==
    /\ Quiet
    /\ Unobserved
    /\ lastOp' = GetTupleDone(threadId, recordId, deadlineAt,
                               GetTupleOutcome(store, threadId, recordId, deadlineAt))
    /\ UNCHANGED <<config, workload, store, writers, puts, faults, foreignRemoved, lost>>

\* the logical record ids of a thread, in recordId sort order
LogicalIdsInOrder == <<LegacyRecordId, PutRecordId>>
IsShardKey(recordId, prefix) == Len(recordId) > 0 /\ recordId[1] = prefix

\* list (adapter): the tuples of the thread's records in the logical
\* namespace, shard keys filtered out, split records reassembled, failures skipped
RECURSIVE ListFrom(_, _, _, _)
ListFrom(st, threadId, i, prefix) ==
    IF i > Len(LogicalIdsInOrder) THEN <<>>
    ELSE LET recordId == LogicalIdsInOrder[i]
             found == StoreGet(st, threadId, recordId)
             rest == ListFrom(st, threadId, i + 1, prefix)
         IN  IF ~IsSome(found) \/ IsShardKey(recordId, prefix) THEN rest
             ELSE LET out == GetTupleOutcome(st, threadId, recordId, 0)
                  IN  IF IsSome(out.tuple)
                      THEN <<[recordId |-> recordId, tuple |-> Get(out.tuple)]>> \o rest
                      ELSE rest

List(threadId) ==
    /\ Quiet
    /\ Unobserved
    /\ lastOp' = [NoOp EXCEPT !.op = "list", !.threadId = threadId,
                              !.items = ListFrom(store, threadId, 1,
                                                 config.splitRecordPrefix)]
    /\ UNCHANGED <<config, workload, store, writers, puts, faults, foreignRemoved, lost>>

\* variant: a deleteThread that deletes the checkpoint and shard records only
DeleteThreadKeepsWriteLog(threadId) ==
    /\ Quiet
    /\ store' = {r \in store : r.threadId # threadId \/ r.recordId[1] = "write"}
    /\ lastOp' = [NoOp EXCEPT !.op = "deleteThread", !.threadId = threadId,
                              !.found = Cardinality({r \in store : r.threadId = threadId}),
                              !.others = {r \in store : r.threadId # threadId}]
    /\ lost' = lost \cup {r.recordId : r \in {x \in store : x.threadId = threadId}}
    /\ UNCHANGED <<config, workload, writers, puts, faults, foreignRemoved>>

\* deleteThread (adapter): every record of the thread is deleted
DeleteThreadOk(threadId) ==
    /\ Quiet
    /\ store' = {r \in store : r.threadId # threadId}
    /\ lastOp' = [NoOp EXCEPT !.op = "deleteThread", !.threadId = threadId,
                              !.found = Cardinality({r \in store : r.threadId = threadId}),
                              !.others = {r \in store : r.threadId # threadId}]
    /\ lost' = lost \cup {r.recordId : r \in {x \in store : x.threadId = threadId}}
    /\ UNCHANGED <<config, workload, writers, puts, faults, foreignRemoved>>

\* deleteThread (adapter): the delete of one record rejects, the other
\* records are deleted (best effort) and deleteThread rejects
DeleteThreadFail(threadId) ==
    /\ Quiet
    /\ faults < MaxFaults
    /\ \E r \in {x \in store : x.threadId = threadId} :
          /\ store' = {x \in store : x.threadId # threadId} \cup {r}
          /\ lost' = lost \cup {x.recordId : x \in {y \in store : y.threadId = threadId
                                                                /\ y # r}}
    /\ faults' = faults + 1
    /\ lastOp' = [NoOp EXCEPT !.op = "deleteThread", !.threadId = threadId,
                              !.ok = FALSE,
                              !.found = Cardinality({r \in store : r.threadId = threadId}),
                              !.others = {r \in store : r.threadId # threadId}]
    /\ UNCHANGED <<config, workload, writers, puts, foreignRemoved>>

IsAuxiliaryId(recordId) == Len(recordId) = 9 /\ recordId[5] = "part"

\* an auxiliary item disappears from the table behind the adapter
LoseAuxiliary ==
    /\ Quiet
    /\ lost = {}
    /\ \E r \in store :
          /\ IsAuxiliaryId(r.recordId)
          /\ store' = store \ {r}
          /\ lost' = {r.recordId}
    /\ lastOp' = NoOp
    /\ UNCHANGED <<config, workload, writers, puts, faults, foreignRemoved>>

\* a checksum that belongs to no payload of the workload (no payload is empty)
ForeignChecksum == CalculateChecksum(<<>>)

\* the item carries messages or a chunk (it is not a message-level primary)
CarriesPayload(rec) == IsSome(rec.messageSplitData) \/ IsSome(rec.contentSplitData)

\* the stored checksum of a part differs from the checksum of its payload
ChecksumMismatch(rec) ==
    /\ CarriesPayload(rec)
    /\ IsSome(rec.splitMetadata)
    /\ IsSome(Get(rec.splitMetadata).checksum)
    /\ Get(Get(rec.splitMetadata).checksum) #
          CalculateChecksum(IF IsSome(rec.messageSplitData)
                            THEN Get(rec.messageSplitData).messagesData
                            ELSE Get(rec.contentSplitData).chunkData)

\* an item of a shard set is altered in the table behind the adapter, once:
\* its stored checksum no longer is the checksum of its payload, or its
\* payload is cut to its first character (the checksum following it), or
\* the splitMetadata of a primary is dropped, or its totalParts becomes 0,
\* or the metadata text of a message-level primary becomes another JSON text
\* (its stored checksum staying)
CorruptShard ==
    /\ Quiet
    /\ lost = {}
    /\ \A r \in store :
          (IsSome(r.splitMetadata) \/ r.isSplit = Some(TRUE))
              => \E w \in DOMAIN writers : \E i \in 1..Len(writers[w].records) :
                    Stamped(writers[w].records[i], writers[w].putNo) = r
    /\ \E r \in store :
          /\ r.threadId = PutThread
          /\ IsSome(r.splitMetadata)
          /\ \/ /\ CarriesPayload(r)
                /\ store' = (store \ {r}) \cup
                       {[r EXCEPT !.splitMetadata =
                            Some([Get(@) EXCEPT !.checksum = Some(ForeignChecksum)])]}
             \/ /\ IsSome(r.messageSplitData)
                /\ Len(Get(r.messageSplitData).messagesData) > 1
                /\ LET cut == SubSeq(Get(r.messageSplitData).messagesData, 1, 1)
                   IN  store' = (store \ {r}) \cup
                          {[r EXCEPT !.messageSplitData =
                                         Some([Get(@) EXCEPT !.messagesData = cut]),
                                     !.splitMetadata =
                                         Some([Get(@) EXCEPT !.checksum =
                                                 IF IsSome(@)
                                                 THEN Some(CalculateChecksum(cut))
                                                 ELSE None])]}
             \/ /\ IsSome(r.contentSplitData)
                /\ Len(Get(r.contentSplitData).chunkData) > 1
                /\ LET cut == SubSeq(Get(r.contentSplitData).chunkData, 1, 1)
                   IN  store' = (store \ {r}) \cup
                          {[r EXCEPT !.contentSplitData =
                                         Some([Get(@) EXCEPT !.chunkData = cut]),
                                     !.splitMetadata =
                                         Some([Get(@) EXCEPT !.checksum =
                                                 IF IsSome(@)
                                                 THEN Some(CalculateChecksum(cut))
                                                 ELSE None])]}
             \/ /\ r.recordId = PutRecordId
                /\ r.isSplit = Some(TRUE)
                /\ store' = (store \ {r}) \cup {[r EXCEPT !.splitMetadata = None]}
             \/ /\ r.recordId = PutRecordId
                /\ r.isSplit = Some(TRUE)
                /\ store' = (store \ {r}) \cup
                       {[r EXCEPT !.splitMetadata =
                            Some([Get(@) EXCEPT !.totalParts = 0])]}
             \/ /\ r.recordId = PutRecordId
                /\ r.isSplit = Some(TRUE)
                /\ Get(r.splitMetadata).strategy = MESSAGE_LEVEL
                /\ IsSome(r.metadata)
                /\ store' = (store \ {r}) \cup
                       {[r EXCEPT !.metadata =
                            Some(StringifyMetadata(
                                     [source |-> PutMetadata.source + 1]))]}
    /\ lastOp' = NoOp
    /\ UNCHANGED <<config, workload, writers, puts, faults, foreignRemoved, lost>>

\* the reads the callers make: a record id, the deadline's expiry and the
\* record ids whose get rejects while the read runs
ReadInputs ==
    {<<PutRecordId, d, {}>> : d \in Deadlines} \cup {<<LegacyRecordId, 0, {}>>}
        \cup {<<PutRecordId, 0, {id}>> :
                  id \in {PutRecordId, GatherPartRecordId(PutRecordId, 1)}}

\* the threads the callers read: those they put to
ReadThreads == {writers[w].threadId : w \in DOMAIN writers}

Next ==
    \/ \E w \in DOMAIN writers, cp \in workload : Put(w, cp)
    \/ \E w \in DOMAIN writers : CreateOk(w)
    \/ \E w \in DOMAIN writers : CreateFail(w)
    \/ \E w \in DOMAIN writers : OperationTimeoutElapses(w)
    \/ \E w \in DOMAIN writers : Crash(w)
    \/ \E w \in DOMAIN writers : RollbackDeleteOk(w)
    \/ \E w \in DOMAIN writers : RollbackDeleteFail(w)
    \/ \E w \in DOMAIN writers : DirectWriteOk(w)
    \/ \E w \in DOMAIN writers : DirectWriteFail(w)
    \/ \E in \in ReadInputs, t \in ReadThreads :
          Reassemble(t, in[1], in[2], in[3])
    \/ \E in \in ReadInputs, t \in ReadThreads :
          in[3] = {} /\ GetTuple(t, in[1], in[2])
    \/ \E t \in ReadThreads : ReassembleRacing(t, PutRecordId)
    \/ \E t \in Threads : List(t)
    \/ DeleteThreadOk(PutThread)
    \/ DeleteThreadFail(PutThread)
    \/ LoseAuxiliary
    \/ CorruptShard

Spec == Init /\ [][Next]_vars

(***************************************************************************)
(* Two callers putting to the same key concurrently.                       *)
(***************************************************************************)
ConcConfigInputs ==
    { SplitConfig(TRUE, 1000, MESSAGE_LEVEL, 2, DefaultPrefix, 1),
      SplitConfig(TRUE, 1000, MESSAGE_LEVEL, 2, "shard", 1) }
ConcPutInputs ==
    { [channel_values |-> <<MsgChannel("a", <<22, 1>>)>>],
      [channel_values |-> <<PlainChannel("a", 7)>>] }

\* the payloads of two shard-set writes to one key, of three and of two shards
OverwritePutInputs ==
    { [channel_values |-> <<MsgChannel("a", <<22, 1>>)>>],
      [channel_values |-> <<MsgChannel("a", <<1>>)>>] }

InitConc ==
    /\ config \in ConcConfigInputs
    /\ workload = IF config.splitRecordPrefix = DefaultPrefix
                  THEN ConcPutInputs ELSE OverwritePutInputs
    /\ store = InitialStore
    /\ writers = [w \in {"w1", "w2"} |-> IdleWriter]
    /\ puts = 0
    /\ faults = 0
    /\ lastOp = NoOp
    /\ foreignRemoved = FALSE
    /\ lost = {}

SpecConc == InitConc /\ [][Next]_vars

(***************************************************************************)
(* One caller, every store call of its write returning: the awaited        *)
(* create resolves or rejects, and so does the awaited delete.             *)
(***************************************************************************)
SpecFair ==
    /\ Init
    /\ [][Next]_vars
    /\ WF_vars(CreateOk("w1") \/ CreateFail("w1"))
    /\ WF_vars(RollbackDeleteOk("w1") \/ RollbackDeleteFail("w1"))

(***************************************************************************)
(* Two callers putting concurrently, each to a thread of its own.          *)
(***************************************************************************)
InitThreads ==
    /\ config \in {SplitConfig(TRUE, 1000, MESSAGE_LEVEL, 2, DefaultPrefix, 1),
                   SplitConfig(TRUE, 1000, CONTENT_LEVEL, 16, DefaultPrefix, 1)}
    /\ workload = ConcPutInputs
    /\ store = InitialStore
    /\ writers = [w \in {"w1", "w2"} |->
                     [IdleWriter EXCEPT !.threadId = IF w = "w1" THEN "t1" ELSE "t2"]]
    /\ puts = 0
    /\ faults = 0
    /\ lastOp = NoOp
    /\ foreignRemoved = FALSE
    /\ lost = {}

SpecThreads == InitThreads /\ [][Next]_vars

(***************************************************************************)
(* The functions of the two services applied on their own, to checkpoints  *)
(* with up to six messages in a channel, some of them not serializable.    *)
(***************************************************************************)
InitPure ==
    LET messages == {<<>>} \cup {[i \in 1..n |-> IF i = k THEN 0 ELSE IF i = 2 THEN 22 ELSE 1] :
                                    n \in {1, 2, 5, 6}, k \in 0..6}
        few == {<<>>, <<1>>, <<0>>, <<1, 0>>}
    IN  /\ config \in {SplitConfig(TRUE, 1000, MESSAGE_LEVEL, c, DefaultPrefix, 1) :
                          c \in 1..3}
                        \cup {SplitConfig(TRUE, 1000, CONTENT_LEVEL, 4, DefaultPrefix, 1)}
        /\ workload =
              {[channel_values |-> <<MsgChannel("a", ms)>>] : ms \in messages}
                \cup {[channel_values |-> <<PlainChannel("a", 7)>>]}
                \cup {[channel_values |-> <<c, MsgChannel("b", ms)>>] :
                         c \in {PlainChannel("a", 7)}
                                  \cup {MsgChannel("a", m) : m \in few},
                         ms \in few}
        /\ store = InitialStore
        /\ writers = [w \in {"w1"} |-> IdleWriter]
        /\ puts = 0
        /\ faults = 0
        /\ lastOp = NoOp
        /\ foreignRemoved = FALSE
        /\ lost = {}

\* the function op was called with input and returned output
Applied(op, input, output) ==
    /\ lastOp' = [NoOp EXCEPT !.op = op, !.input = Some(input), !.output = Some(output)]
    /\ UNCHANGED <<config, workload, store, writers, puts, faults, foreignRemoved, lost>>

NextPure ==
    \/ \E cp \in workload :
          Applied("canSplitCheckpoint", cp, CanSplitCheckpoint(cp, config))
    \/ \E messages \in SeqsUpTo(MsgValues, MaxChunked) :
          Applied("_chunkMessages", messages,
                  ChunkMessages(messages, config.maxChunkSize))
    \/ \E messages \in SeqsUpTo(MsgValues, MaxChunked) :
          /\ config.strategy = MESSAGE_LEVEL
          /\ Applied("_splitMessageLevel",
                     [channel_values |-> <<MsgChannel("a", messages)>>],
                     SplitMessageLevel(PutThread, PutRecordId,
                                       [channel_values |-> <<MsgChannel("a", messages)>>],
                                       PutMetadata, config))
    \/ \E cp \in {c \in workload :
                     /\ Len(c.channel_values) = 1
                     /\ Len(c.channel_values[1].messages) <= 1
                     /\ \A k \in 1..Len(c.channel_values[1].messages) :
                           Serializable(c.channel_values[1].messages[k])} :
          LET records == SplitContentLevel(PutThread, PutRecordId, cp, PutMetadata,
                                           config)
              stored == {Stamped(records[i], 1) : i \in 1..Len(records)}
          IN  /\ config.strategy = CONTENT_LEVEL
              /\ \E gone \in {{}} \cup {{r} : r \in {x \in stored :
                                                          x.recordId # PutRecordId}} :
                    lastOp' =
                        [NoOp EXCEPT !.op = "reassemble", !.threadId = PutThread,
                                     !.recordId = PutRecordId,
                                     !.reassembleCalls = 1,
                                     !.input = Some(InitialStore \cup (stored \ gone)),
                                     !.result =
                                         ReassembleCheckpoint(
                                             InitialStore \cup (stored \ gone),
                                             PutThread, PutRecordId, ReadOptions,
                                             0, {})]
              /\ UNCHANGED <<config, workload, store, writers, puts, faults,
                             foreignRemoved, lost>>

SpecPure == InitPure /\ [][NextPure]_vars

(***************************************************************************)
(* Properties.                                                             *)
(***************************************************************************)
\* the put of caller w has returned having stored a shard set
CommittedSplit(w) == writers[w].pc = "committed" /\ writers[w].wasSplit

\* every record the put of caller w stored is still in the store as stored
Intact(w) ==
    \A i \in 1..Len(writers[w].records) :
        Stamped(writers[w].records[i], writers[w].putNo) \in store

\* the payload caller w put
PutPayload(w) == [checkpoint |-> Get(writers[w].checkpoint), metadata |-> PutMetadata]

\* the last operation read the put key and its deadline did not pass
ReadOfPutKey(op) ==
    /\ lastOp.op = op
    /\ lastOp.threadId = PutThread
    /\ lastOp.recordId = PutRecordId
    /\ lastOp.deadlineAt = 0
    /\ lastOp.rejecting = {}

\* C1: message-level round trip.  With splitting enabled, strategy
\* MESSAGE_LEVEL, the default prefix and no failing store call, a getTuple or
\* reassemble that follows a split put on the same key returns the original
\* checkpoint and metadata, every channel with its messages in order.
C1_MessageLevelRoundTrip ==
    \A w \in DOMAIN writers :
        (/\ config.enabled
         /\ config.strategy = MESSAGE_LEVEL
         /\ config.splitRecordPrefix = DefaultPrefix
         /\ faults = 0
         /\ CommittedSplit(w)
         /\ Intact(w))
        => /\ ReadOfPutKey("getTuple") => lastOp.tuple = Some(PutPayload(w))
           /\ ReadOfPutKey("reassemble") =>
                 /\ lastOp.result.success
                 /\ lastOp.result.data = Some(PutPayload(w))

C1_Witness ==
    /\ config.strategy = MESSAGE_LEVEL
    /\ config.splitRecordPrefix = DefaultPrefix
    /\ faults = 0
    /\ CommittedSplit("w1")
    /\ Intact("w1")
    /\ Len(writers["w1"].records) >= 4
    /\ ReadOfPutKey("getTuple")
    /\ lastOp.tuple = Some(PutPayload("w1"))

\* C2: content-level round trip.  With splitting enabled and strategy
\* CONTENT_LEVEL, whatever the number N >= 1 of chunks, a reassemble that
\* follows a successful put on the same key gathers all N shards the write
\* stored and returns success with the original checkpoint and metadata.
C2_ContentLevelRoundTrip ==
    \A w \in DOMAIN writers :
        (/\ config.enabled
         /\ config.strategy = CONTENT_LEVEL
         /\ faults = 0
         /\ CommittedSplit(w)
         /\ Intact(w)
         /\ ReadOfPutKey("reassemble"))
        => /\ lastOp.result.success
           /\ lastOp.result.partsReassembled = Len(writers[w].records)
           /\ lastOp.result.data = Some(PutPayload(w))

\* the case of C2 with a single chunk, where the round trip is reached
C2_Witness ==
    /\ config.strategy = CONTENT_LEVEL
    /\ faults = 0
    /\ CommittedSplit("w1")
    /\ Intact("w1")
    /\ ReadOfPutKey("reassemble")
    /\ Len(writers["w1"].records) = 1
    /\ lastOp.result.data = Some(PutPayload("w1"))

\* the put of caller w was a shard-set write that ended in failure
FailedSplit(w) == writers[w].pc = "failed" /\ Len(writers[w].records) > 0

\* C3: rollback completeness.  When the create of a shard has failed on all
\* maxRetries attempts and every rollback delete has succeeded, no record
\* written by that put is left in the store, neither at the logical recordId
\* nor at an auxiliary key.
C3_RollbackCompleteness ==
    \A w \in DOMAIN writers :
        (FailedSplit(w) /\ ~writers[w].rbFailed)
        => \A r \in store : r.op # writers[w].putNo

C3_Witness ==
    /\ FailedSplit("w1")
    /\ ~writers["w1"].rbFailed
    /\ Len(writers["w1"].recordIds) >= 2
    /\ writers["w1"].rb = Len(writers["w1"].recordIds)
    /\ \A r \in store : r.op # writers["w1"].putNo

\* one auxiliary shard of the set caller w stored has been removed from the
\* store, the rest of the set is as stored
OneAuxiliaryLost(w) ==
    /\ CommittedSplit(w)
    /\ faults = 0
    /\ Cardinality(lost) = 1
    /\ \A i \in 1..Len(writers[w].records) :
          LET rec == writers[w].records[i]
          IN  IF rec.recordId \in lost
              THEN /\ rec.recordId # PutRecordId
                   /\ StoreGet(store, PutThread, rec.recordId) = None
              ELSE Stamped(rec, writers[w].putNo) \in store
    /\ \E i \in 1..Len(writers[w].records) : writers[w].records[i].recordId \in lost

\* C4: missing auxiliary.  After a successful sharded put, with one auxiliary
\* shard of the set deleted from the store, reassemble does not return
\* success with data, getTuple returns undefined, and the warnings include
\* "Found (N-1)/N parts"; for MESSAGE_LEVEL and CONTENT_LEVEL sets alike.
C4_MissingAuxiliary ==
    \A w \in DOMAIN writers :
        OneAuxiliaryLost(w)
        => /\ ReadOfPutKey("getTuple") => lastOp.tuple = None
           /\ ReadOfPutKey("reassemble") =>
                 /\ ~(lastOp.result.success /\ IsSome(lastOp.result.data))
                 /\ \E i \in 1..Len(lastOp.result.warnings) :
                       lastOp.result.warnings[i] =
                           Msg("Found a/b parts", Len(writers[w].records) - 1,
                               Len(writers[w].records))

\* every caller has put and its put has returned
AllPutsFinished ==
    \A w \in DOMAIN writers :
        writers[w].count = MaxPuts /\ writers[w].pc \in {"committed", "failed"}

\* the record at R, when it heads a shard set, has all the auxiliaries its
\* totalParts refers to, each carrying that totalParts
CompleteSetAt(st, threadId, recordId) ==
    LET primary == StoreGet(st, threadId, recordId)
    IN  (IsSome(primary) /\ IsSome(Get(primary).splitMetadata))
        => \A n \in 1..(Get(Get(primary).splitMetadata).totalParts - 1) :
              LET aux == StoreGet(st, threadId,
                             GenerateSplitRecordId(recordId, n, config.splitRecordPrefix))
              IN  /\ IsSome(aux)
                  /\ IsSome(Get(aux).splitMetadata)
                  /\ Get(Get(aux).splitMetadata).totalParts =
                         Get(Get(primary).splitMetadata).totalParts

\* C5: atomicity under same-key concurrency.  For two puts on the same key,
\* under every interleaving of their store calls and every pattern of create
\* failures, once both have finished either no record exists at R or the
\* record at R and every auxiliary its totalParts refers to exist with the
\* same totalParts; and no rollback has removed a shard stored by the other
\* write.
C5_SameKeyAtomicity ==
    (/\ Cardinality(DOMAIN writers) = 2
     /\ AllPutsFinished
     /\ \A w \in DOMAIN writers : Len(writers[w].records) > 0
     /\ lost = {})
    => /\ CompleteSetAt(store, PutThread, PutRecordId)
       /\ ~foreignRemoved

\* the creates of a shard of caller w's put have failed maxRetries times
Exhausted(w) == writers[w].pc = "rollback" \/ FailedSplit(w)

\* C6: a failed shard write is reported.  When create fails on every one of
\* the maxRetries attempts for a shard, exactly maxRetries creates of that
\* shard are attempted, no later shard is attempted, the operation ends with
\* an error wrapping the last store error (never with wasSplit true or
\* false), and put rejects with that error without a direct single-record
\* write.
C6_FailedShardWriteReported ==
    \A w \in DOMAIN writers :
        LET wr == writers[w]
        IN  /\ Exhausted(w) =>
                /\ wr.attempts[wr.idx] = config.maxRetries
                /\ \A j \in (wr.idx + 1)..Len(wr.records) : wr.attempts[j] = 0
                /\ ~wr.wasSplit
                /\ wr.directWrites = 0
            /\ FailedSplit(w) =>
                /\ wr.error.prefix = <<"Checkpoint splitting failed",
                                       "Failed to store split record after b retries">>
                /\ wr.error.b = config.maxRetries
                /\ wr.error.text = wr.errors[Len(wr.errors)].text
                /\ wr.error.a = wr.errors[Len(wr.errors)].a
                /\ \A i \in 1..Len(wr.errors) : wr.errors[i].a <= wr.error.a

C6_Witness ==
    /\ FailedSplit("w1")
    /\ config.maxRetries = 2
    /\ writers["w1"].idx >= 2
    /\ writers["w1"].attempts[writers["w1"].idx] = 2
    /\ Len(writers["w1"].errors) = 2
    /\ writers["w1"].error.a = writers["w1"].errors[2].a
    /\ writers["w1"].directWrites = 0

\* C7: shard invisibility.  After any sequence of puts on a thread, list
\* yields no record whose recordId begins with the shard prefix, and a
\* sharded logical record appears in it exactly once, as its fully
\* reassembled tuple.
C7_ShardInvisibility ==
    (lastOp.op = "list" /\ lastOp.threadId = PutThread)
    => /\ \A i \in 1..Len(lastOp.items) :
             ~IsShardKey(lastOp.items[i].recordId, config.splitRecordPrefix)
       /\ \A w \in DOMAIN writers :
             (CommittedSplit(w) /\ Intact(w))
             => /\ Cardinality({i \in 1..Len(lastOp.items) :
                                   lastOp.items[i].recordId = PutRecordId}) = 1
                /\ \A i \in 1..Len(lastOp.items) :
                      lastOp.items[i].recordId = PutRecordId
                      => lastOp.items[i].tuple = PutPayload(w)

\* a sharded record listed once and whole, beside a legacy record
C7_Witness ==
    /\ lastOp.op = "list"
    /\ lastOp.threadId = PutThread
    /\ CommittedSplit("w1")
    /\ Intact("w1")
    /\ Len(writers["w1"].records) >= 3
    /\ Len(lastOp.items) = 2
    /\ lastOp.items[2] = [recordId |-> PutRecordId, tuple |-> PutPayload("w1")]

\* C8: deleteThread completeness and idempotence.  With no concurrent writer
\* and no failing delete, after deleteThread(t) no record of thread t remains
\* (logical records, shard primaries, auxiliaries and write-log records
\* alike) and the records of other threads are unchanged; a deleteThread(t)
\* that finds the thread empty succeeds and leaves the same state.
C8_DeleteThreadComplete ==
    lastOp.op = "deleteThread"
    => /\ lastOp.ok =>
             /\ \A r \in store : r.threadId # lastOp.threadId
             /\ store = lastOp.others
       /\ lastOp.found = 0 => (lastOp.ok /\ store = lastOp.others)

C8_Witness ==
    /\ lastOp.op = "deleteThread"
    /\ lastOp.ok
    /\ lastOp.found >= 5
    /\ \E id \in lost : IsAuxiliaryId(id)
    /\ WriteLogRecordId \in lost
    /\ store = lastOp.others
    /\ store # {}

\* the record the last operation read, when it is there and not split
PlainRecordRead ==
    LET found == StoreGet(store, lastOp.threadId, lastOp.recordId)
    IN  /\ IsSome(found) /\ Get(found).isSplit \in {None, Some(FALSE)}
        /\ lastOp.recordId \notin lastOp.rejecting

\* C9: legacy compatibility.  getTuple on a stored record whose isSplit is
\* absent or false decodes that record directly and never invokes reassemble;
\* reassemble called on such a record returns success=false with the warning
\* "Record is not split" and reads the store no further.
C9_LegacyCompatibility ==
    /\ (lastOp.op = "getTuple" /\ PlainRecordRead)
       => /\ lastOp.reassembleCalls = 0
          /\ IsSome(lastOp.tuple)
          /\ lastOp.tuple =
                DecodePlain(Get(StoreGet(store, lastOp.threadId, lastOp.recordId)))
    /\ (lastOp.op = "reassemble" /\ PlainRecordRead)
       => /\ ~lastOp.result.success
          /\ lastOp.result.data = None
          /\ lastOp.result.warnings = <<Msg("Record is not split", 0, 0)>>
          /\ lastOp.result.gets = 1

C9_Witness ==
    /\ lastOp.op = "reassemble"
    /\ lastOp.recordId = LegacyRecordId
    /\ PlainRecordRead
    /\ Get(StoreGet(store, lastOp.threadId, lastOp.recordId)).isSplit = None
    /\ lastOp.result.warnings = <<Msg("Record is not split", 0, 0)>>
    /\ lastOp.result.gets = 1

\* the analysed total size of the checkpoint caller w put
PutTotalSize(w) ==
    AnalyzeCheckpointSize(Get(writers[w].checkpoint), PutMetadata, config).totalSize

\* caller w has put a checkpoint the configured strategy can split
SplittablePut(w) ==
    /\ IsSome(writers[w].checkpoint)
    /\ config.enabled
    /\ CanSplitCheckpoint(Get(writers[w].checkpoint), config).canSplit

\* C10: threshold boundary.  With splitting enabled and a checkpoint the
\* strategy can split, a record whose total size equals maxSizeThreshold is
\* not split (no shard is written, wasSplit is false) and one whose total
\* size is maxSizeThreshold + 1 is split (wasSplit is true once stored).
C10_ThresholdBoundary ==
    \A w \in DOMAIN writers :
        SplittablePut(w)
        => /\ PutTotalSize(w) = config.maxSizeThreshold
                => /\ writers[w].records = <<>>
                   /\ writers[w].pc \in {"direct", "committed", "failed"}
                   /\ ~writers[w].wasSplit
                   /\ \A r \in store : r.op = writers[w].putNo => r.isSplit = Some(FALSE)
           /\ PutTotalSize(w) = config.maxSizeThreshold + 1
                => /\ Len(writers[w].records) > 0
                   /\ writers[w].directWrites = 0
                   /\ writers[w].pc = "committed" => writers[w].wasSplit

C10_Witness ==
    /\ SplittablePut("w1")
    /\ config.strategy = MESSAGE_LEVEL
    /\ PutTotalSize("w1") = config.maxSizeThreshold
    /\ writers["w1"].pc = "committed"
    /\ ~writers["w1"].wasSplit
    /\ writers["w1"].directWrites = 1

\* the records in the store that the put of caller w created
StoredSetOf(w) == {r \in store : r.threadId = PutThread /\ r.op = writers[w].putNo}

\* the part numbers a set of totalParts parts has under a strategy
PartNumberRange(strategy, totalParts) ==
    IF strategy = MESSAGE_LEVEL THEN 0..(totalParts - 1) ELSE 1..totalParts

ShardPayload(rec) ==
    IF IsSome(rec.messageSplitData) THEN Get(rec.messageSplitData).messagesData
    ELSE IF IsSome(rec.contentSplitData) THEN Get(rec.contentSplitData).chunkData
    ELSE Get(rec.checkpoint) \o Get(rec.metadata)

\* C12: every shard carries a checksum.  Each record produced by a split
\* (message-level auxiliaries and primary, content-level shards) has
\* splitMetadata.checksum equal to the checksum of the payload of that shard.
C12_EveryShardHasChecksum ==
    \A w \in DOMAIN writers :
        \A i \in 1..Len(writers[w].records) :
            LET rec == writers[w].records[i]
            IN  /\ IsSome(rec.splitMetadata)
                /\ Get(rec.splitMetadata).checksum =
                      Some(CalculateChecksum(ShardPayload(rec)))

\* the parts the gather of the last read delivered, none if it timed out
GatheredByLastRead ==
    LET primary == StoreGet(store, lastOp.threadId, lastOp.recordId)
        gathered == GatherSplitParts(store, lastOp.threadId, lastOp.recordId,
                                     Get(primary).splitMetadata, lastOp.deadlineAt,
                                     lastOp.rejecting)
    IN  IF IsSplitRecord(primary) /\ gathered.ok THEN Get(gathered.data) ELSE <<>>

\* C13: checksum mismatch fails the read.  With validateChecksums=true, if a
\* gathered auxiliary of a MESSAGE_LEVEL set or a gathered part of a
\* CONTENT_LEVEL set has a stored checksum different from the checksum of its
\* payload, reassemble returns success=false without data and its first
\* warning names the checksum mismatch and the part number.
C13_ChecksumMismatchFailsRead ==
    (lastOp.op = "reassemble" /\ ReadOptions.validateChecksums)
    => \A i \in 1..Len(GatheredByLastRead) :
          ChecksumMismatch(GatheredByLastRead[i])
          => /\ ~lastOp.result.success
             /\ lastOp.result.data = None
             /\ Len(lastOp.result.warnings) > 0
             /\ lastOp.result.warnings[1] =
                   Wrap("Reassembly failed",
                        Msg("Checksum mismatch for part",
                            Get(GatheredByLastRead[i].splitMetadata).partNumber, 0))

C13_Witness ==
    /\ lastOp.op = "reassemble"
    /\ config.strategy = MESSAGE_LEVEL
    /\ \E i \in 1..Len(GatheredByLastRead) :
          /\ ChecksumMismatch(GatheredByLastRead[i])
          /\ Get(GatheredByLastRead[i].splitMetadata).partNumber = 2
    /\ ~lastOp.result.success
    /\ lastOp.result.warnings =
          <<Wrap("Reassembly failed", Msg("Checksum mismatch for part", 2, 0))>>

\* the put of caller w meets one of the three pass-through cases
PassThroughCase(w) ==
    LET cp == Get(writers[w].checkpoint)
    IN  \/ ~config.enabled
        \/ ~AnalyzeCheckpointSize(cp, PutMetadata, config).exceedsThreshold
        \/ ~CanSplitCheckpoint(cp, config).canSplit

\* C14: pass-through outcome.  When splitting is disabled, or the analysis
\* does not exceed the threshold, or the threshold is exceeded but the
\* checkpoint cannot be split, splitIfNeeded returns
\* {wasSplit: false, recordIds: [recordId]} and has made no store call (the
\* only write of the put is the adapter's direct write); when disabled the
\* size analysis is not run.
C14_PassThrough ==
    \A w \in DOMAIN writers :
        (IsSome(writers[w].checkpoint) /\ PassThroughCase(w))
        => /\ writers[w].returned = Some(SplitOutcome(FALSE, <<PutRecordId>>))
           /\ writers[w].records = <<>>
           /\ writers[w].attempts = <<>>
           /\ writers[w].recordIds = <<>>
           /\ writers[w].rb = 0
           /\ writers[w].pc \in {"direct", "committed", "failed"}
           /\ writers[w].pc = "direct" => StoredSetOf(w) = {}
           /\ ~config.enabled => ~writers[w].analysed

C14_Witness ==
    /\ IsSome(writers["w1"].checkpoint)
    /\ config.enabled
    /\ AnalyzeCheckpointSize(Get(writers["w1"].checkpoint), PutMetadata,
                             config).exceedsThreshold
    /\ ~CanSplitCheckpoint(Get(writers["w1"].checkpoint), config).canSplit
    /\ writers["w1"].pc = "direct"
    /\ writers["w1"].returned = Some(SplitOutcome(FALSE, <<PutRecordId>>))

\* C15: absent record.  When no record exists at (threadId, recordId),
\* reassemble returns success=false with warnings equal to
\* ["Record not found"], which differs from the "Record is not split"
\* outcome of an existing unsharded record.
C15_AbsentRecord ==
    (/\ lastOp.op = "reassemble"
     /\ StoreGet(store, lastOp.threadId, lastOp.recordId) = None)
    => /\ ~lastOp.result.success
       /\ lastOp.result.warnings = <<Msg("Record not found", 0, 0)>>

\* the deadline of the last read had passed when one of the totalParts
\* store reads of its gather returned (read k returns before check k)
DeadlinePassedInGather ==
    LET primary == StoreGet(store, lastOp.threadId, lastOp.recordId)
    IN  /\ IsSplitRecord(primary)
        /\ IsSome(Get(primary).splitMetadata)
        /\ Get(Get(primary).splitMetadata).totalParts >= 1
        /\ lastOp.deadlineAt \in 1..Get(Get(primary).splitMetadata).totalParts

\* C16: reassembly deadline.  For every totalParts >= 1, if the deadline has
\* passed when a store read of the gather returns, the last one included,
\* reassemble returns success=false with a timeout warning.
C16_ReassemblyDeadline ==
    (lastOp.op = "reassemble" /\ DeadlinePassedInGather)
    => /\ ~lastOp.result.success
       /\ lastOp.result.warnings =
             <<Wrap("Reassembly failed",
                    Msg("Timeout while gathering split parts", 0, 0))>>

C16_Witness ==
    /\ lastOp.op = "reassemble"
    /\ DeadlinePassedInGather
    /\ ~lastOp.result.success
    /\ lastOp.result.warnings =
          <<Wrap("Reassembly failed", Msg("Timeout while gathering split parts", 0, 0))>>

\* the auxiliary records the split of caller w's put produced
AuxiliariesOf(w) ==
    {writers[w].records[i] : i \in {j \in 1..Len(writers[w].records) :
                                       writers[w].records[j].recordId # PutRecordId}}

\* the auxiliary keys the gather reads for a set of totalParts parts at R
GatherKeys(totalParts) ==
    {GatherPartRecordId(PutRecordId, partNum) : partNum \in 1..(totalParts - 1)}

\* C17: prefix consistency.  For every configured splitRecordPrefix and
\* every part written, the auxiliary keys reassemble reads are exactly the
\* auxiliary keys the splitter wrote for the record, each of the form
\* "{splitRecordPrefix}#{originalRecordId}#part#{NNNN}" with NNNN the
\* zero-padded 4-digit part number.
C17_PrefixConsistency ==
    \A w \in DOMAIN writers :
        Len(writers[w].records) > 0
        => /\ \A rec \in AuxiliariesOf(w) :
                 rec.recordId =
                    <<config.splitRecordPrefix>> \o PutRecordId \o <<"part">> \o
                       PadStart(NumToText(Get(rec.splitMetadata).partNumber), 4, "0")
           /\ GatherKeys(Get(writers[w].records[1].splitMetadata).totalParts) =
                 {rec.recordId : rec \in AuxiliariesOf(w)}

\* C18: write deadline.  Once the elapsed time of a shard-set write exceeds
\* config.operationTimeout, the write issues no further create: its next
\* step moves it to rollback, ending in failure.
C18_WriteDeadline ==
    [][\A w \in DOMAIN writers :
          (/\ writers[w].pc = "storing"
           /\ writers[w].expired
           /\ writers'[w] # writers[w])
          => /\ writers'[w].attempts = writers[w].attempts
             /\ writers'[w].pc \in {"rollback", "failed"}]_vars

\* the write of caller w stopped between two shards
Crashed(w) == writers[w].pc = "crashed"

\* C19: crash between shards.  If a shard-set write stops after storing
\* some but not all of its shards and no rollback runs, a later
\* deleteThread removes every shard it left behind, and until then list
\* yields no tuple for that logical record built from the leftover shards.
C19_CrashBetweenShards ==
    \A w \in DOMAIN writers :
        Crashed(w)
        => /\ (lastOp.op = "deleteThread" /\ lastOp.threadId = PutThread /\ lastOp.ok)
                 => StoredSetOf(w) = {}
           /\ (lastOp.op = "list" /\ lastOp.threadId = PutThread /\ StoredSetOf(w) # {})
                 => \A i \in 1..Len(lastOp.items) :
                       lastOp.items[i].recordId # PutRecordId

\* C20: getTuple on a sharded record whose reassembly ends with
\* success=false (missing part, checksum mismatch, timeout, invalid split
\* metadata) returns undefined to the caller: it neither raises nor returns
\* partial data.
C20_FailedReassemblyIsUndefined ==
    (/\ lastOp.op = "getTuple"
     /\ lastOp.reassembleCalls = 1
     /\ ~lastOp.result.success)
    => /\ lastOp.tuple = None
       /\ lastOp.raised = None


\* no two callers put to the same thread
DistinctThreads ==
    \A v, w \in DOMAIN writers : v # w => writers[v].threadId # writers[w].threadId

\* C21: concurrent puts to distinct threads do not interfere.  For two puts
\* running concurrently on two threads, with no failing store call and the
\* table not altered behind the adapter, under every interleaving of their
\* store calls: neither put fails, every item created is in the thread of
\* the put that created it, the records of a put that has returned are all
\* in the store, and once both have returned a getTuple of either thread's
\* logical record returns the checkpoint and metadata put to that thread.
C21_DistinctThreadsIndependent ==
    (/\ DistinctThreads
     /\ faults = 0
     /\ lost = {}
     /\ \A r \in store : ~ChecksumMismatch(r))
    => /\ \A w \in DOMAIN writers : writers[w].pc \notin {"rollback", "failed"}
       /\ \A r \in store :
             r.op # 0 => \E w \in DOMAIN writers : /\ writers[w].putNo = r.op
                                                  /\ writers[w].threadId = r.threadId
       /\ \A w \in DOMAIN writers : CommittedSplit(w) => Intact(w)
       /\ ((/\ \A w \in DOMAIN writers : writers[w].pc = "committed"
            /\ lastOp.op = "getTuple"
            /\ lastOp.recordId = PutRecordId
            /\ lastOp.deadlineAt = 0)
           => \E w \in DOMAIN writers :
                 /\ writers[w].threadId = lastOp.threadId
                 /\ lastOp.raised = None
                 /\ lastOp.tuple = Some(PutPayload(w)))


\* the checkpoint stored in the primary record of the put of caller w
StoredPrimaryCheckpoint(w) == JsonParseCheckpoint(Get(writers[w].records[1].checkpoint))

\* C22: the caller's checkpoint is immutable.  After splitCheckpointIfNeeded
\* with either strategy, while it stores, after it has succeeded and after
\* it has failed, the checkpoint object the caller passed is unchanged; for
\* MESSAGE_LEVEL the checkpoint stored as primary is the caller's with the
\* messages of every message-bearing channel emptied.
C22_CallerCheckpointImmutable ==
    \A w \in DOMAIN writers :
        IsSome(writers[w].checkpoint)
        => /\ writers[w].callerCheckpoint = writers[w].checkpoint
           /\ (Len(writers[w].records) > 0 /\ config.strategy = MESSAGE_LEVEL)
              => StoredPrimaryCheckpoint(w) =
                    Some([channel_values |->
                            CleanedChannelValues(
                                Get(writers[w].checkpoint).channel_values)])

\* a message-level put of a checkpoint with messages has ended, stored or
\* failed: its primary has emptied messages, the caller's object has them
C22_Witness ==
    \E w \in DOMAIN writers :
        /\ writers[w].pc \in {"committed", "failed"}
        /\ Len(writers[w].records) > 1
        /\ config.strategy = MESSAGE_LEVEL
        /\ \E i \in 1..Len(Get(writers[w].checkpoint).channel_values) :
              /\ HasNonEmptyMessages(Get(writers[w].callerCheckpoint).channel_values[i])
              /\ Get(StoredPrimaryCheckpoint(w)).channel_values[i].messages = <<>>


\* size is the least integer not below 1.33 x bytes
IsCeilOfBase64Size(size, bytes) ==
    /\ 100 * size >= 133 * bytes
    /\ 100 * (size - 1) < 133 * bytes

\* C23: the size formula.  analyzeCheckpointSize returns totalSize =
\* ceil(1.33 x utf8Bytes(serialized checkpoint)) + ceil(1.33 x
\* utf8Bytes(serialized metadata)) + 1024, sizeBreakdown holds those three
\* terms, and exceedsThreshold is true exactly when totalSize is greater
\* than maxSizeThreshold.
C23_SizeFormula ==
    \A w \in DOMAIN writers :
        IsSome(writers[w].analysis)
        => LET result == Get(writers[w].analysis)
               parts == result.sizeBreakdown
           IN  /\ IsCeilOfBase64Size(parts.checkpoint,
                      ByteLength(StringifyCheckpoint(Get(writers[w].checkpoint))))
               /\ IsCeilOfBase64Size(parts.metadata,
                      ByteLength(StringifyMetadata(PutMetadata)))
               /\ parts.overhead = 1024
               /\ result.totalSize = parts.checkpoint + parts.metadata + parts.overhead
               /\ result.exceedsThreshold = (result.totalSize > config.maxSizeThreshold)

\* an analysed checkpoint whose 1.33 x bytes is not whole and whose total
\* size is at most the threshold
C23_Witness ==
    \E w \in DOMAIN writers :
        /\ IsSome(writers[w].analysis)
        /\ (133 * ByteLength(StringifyCheckpoint(Get(writers[w].checkpoint)))) % 100 # 0
        /\ ~Get(writers[w].analysis).exceedsThreshold


\* C24: largestComponent is "checkpoint" whenever the checkpoint's size is
\* greater than or equal to the metadata's size (the checkpoint wins ties),
\* and "metadata" only when the metadata's size is strictly greater.
C24_LargestComponent ==
    \A w \in DOMAIN writers :
        IsSome(writers[w].analysis)
        => LET result == Get(writers[w].analysis)
           IN  result.largestComponent =
                   IF result.sizeBreakdown.checkpoint >= result.sizeBreakdown.metadata
                   THEN "checkpoint" ELSE "metadata"


\* the least number of chunks of maxChunkSize that hold size
ChunksFor(size, maxChunkSize) ==
    CHOOSE k \in 0..size : k * maxChunkSize >= size /\ (k - 1) * maxChunkSize < size

\* the channels of cv from i on that hold a non-empty messages sequence:
\* the chunks for the size of each one's serialized messages, added up
RECURSIVE MessageChunksFrom(_, _, _)
MessageChunksFrom(cv, i, maxChunkSize) ==
    IF i > Len(cv) THEN 0
    ELSE (IF cv[i].hasMessages /\ cv[i].messages # <<>>
          THEN ChunksFor(CalculateDataSize(StringifyMessages(cv[i].messages)),
                         maxChunkSize)
          ELSE 0) + MessageChunksFrom(cv, i + 1, maxChunkSize)

MessageBearing(cv) == {i \in 1..Len(cv) : cv[i].hasMessages /\ cv[i].messages # <<>>}

\* the messages among the first min(5, N) of a channel that do not serialize
UnserializableSampled(cv) ==
    {p \in MessageBearing(cv) \X (1..5) :
        /\ p[2] <= Len(cv[p[1]].messages)
        /\ ~Serializable(cv[p[1]].messages[p[2]])}

ChunkBytes(chunk) ==
    SumOver([j \in 1..Len(chunk) |-> ByteLength(NumToText(chunk[j]))], Len(chunk))

\* C27: greedy chunking.  For every message sequence and maxChunkSize the
\* chunks produced are all non-empty, their concatenation in order is the
\* original sequence, a chunk holding more than one message has a sum of
\* per-message byte sizes of at most maxChunkSize, and a message larger than
\* maxChunkSize sits alone in its chunk.
C27_GreedyChunking ==
    lastOp.op = "_chunkMessages"
    => LET messages == Get(lastOp.input)
           chunks == Get(lastOp.output)
       IN  /\ \A k \in 1..Len(chunks) : Len(chunks[k]) > 0
           /\ Concat(chunks) = messages
           /\ \A k \in 1..Len(chunks) :
                 Len(chunks[k]) > 1 => ChunkBytes(chunks[k]) <= config.maxChunkSize
           /\ \A k \in 1..Len(chunks) : \A j \in 1..Len(chunks[k]) :
                 ChunkBytes(<<chunks[k][j]>>) > config.maxChunkSize
                     => Len(chunks[k]) = 1

\* _chunkMessages returned several chunks, one of them of several messages,
\* for a sequence that does not fit one chunk
C27_Witness ==
    /\ lastOp.op = "_chunkMessages"
    /\ ChunkBytes(Get(lastOp.input)) > config.maxChunkSize
    /\ Len(Get(lastOp.output)) > 2
    /\ \E k \in 1..Len(Get(lastOp.output)) : Len(Get(lastOp.output)[k]) > 1


\* the auxiliary shards of channel name among records, in part order
ShardsOfChannel(records, name) ==
    SelectSeq(records, LAMBDA r : IsSome(r.messageSplitData)
                                  /\ Get(r.messageSplitData).channelName = name)

\* C28: the recorded index ranges are the actual ones.  For every channel
\* and every auxiliary shard of a MESSAGE_LEVEL split, startMessageIndex and
\* endMessageIndex are the indices in the original sequence of the first
\* and the last message the shard carries: startMessageIndex <=
\* endMessageIndex, endMessageIndex - startMessageIndex + 1 is the number of
\* messages in the shard, and the ranges of one channel's shards are
\* disjoint and cover 0..totalMessages-1.
C28_ActualIndexRanges ==
    lastOp.op = "_splitMessageLevel"
    => \A c \in 1..Len(Get(lastOp.input).channel_values) :
          LET channel == Get(lastOp.input).channel_values[c]
              shards == ShardsOfChannel(Get(lastOp.output), channel.name)
              data(k) == Get(shards[k].messageSplitData)
              carried(k) == Get(JsonParseMessages(data(k).messagesData))
              range(k) == data(k).startMessageIndex..data(k).endMessageIndex
          IN  /\ \A k \in 1..Len(shards) :
                    /\ data(k).startMessageIndex <= data(k).endMessageIndex
                    /\ data(k).endMessageIndex - data(k).startMessageIndex + 1
                           = Len(carried(k))
                    /\ data(k).endMessageIndex < Len(channel.messages)
                    /\ carried(k) = SubSeq(channel.messages,
                                           data(k).startMessageIndex + 1,
                                           data(k).endMessageIndex + 1)
              /\ \A k, l \in 1..Len(shards) : k # l => range(k) \cap range(l) = {}
              /\ UNION {range(k) : k \in 1..Len(shards)} = 0..(Len(channel.messages) - 1)


\* the keys of the first n records the splitter produced for caller w
SplitterKeys(w, n) == [i \in 1..n |-> writers[w].records[i].recordId]

\* the shard-set write of caller w has stored, in the splitter's order, a
\* prefix of the records, and has attempted nothing beyond the next one
StoredInSplitterOrder(w) ==
    LET wr == writers[w]
    IN  /\ Len(wr.recordIds) <= Len(wr.records)
        /\ wr.recordIds = SplitterKeys(w, Len(wr.recordIds))
        /\ \A i \in 1..Len(wr.records) :
              /\ wr.attempts[i] > 0 => i <= Len(wr.recordIds) + 1
              /\ i <= Len(wr.recordIds) => wr.attempts[i] > 0
        /\ IF config.strategy = MESSAGE_LEVEL
           THEN /\ wr.records[1].recordId = PutRecordId
                /\ Get(wr.records[1].splitMetadata).partNumber = 0
           ELSE \A i \in 1..Len(wr.records) :
                   Get(wr.records[i].splitMetadata).partNumber = i
        /\ CommittedSplit(w)
              => wr.returned
                    = Some(SplitOutcome(TRUE, SplitterKeys(w, Len(wr.records))))

\* C29: write ordering.  Within one shard-set write the shards are created
\* in the order produced by the splitter (the primary first for
\* MESSAGE_LEVEL, part 1 to N for CONTENT_LEVEL); the create of shard i+1 is
\* first attempted only after the create of shard i has succeeded, no shard
\* is created again after its create succeeded, and the returned recordIds
\* list the stored keys in that same order.
C29_WriteOrdering ==
    /\ [](\A w \in DOMAIN writers :
             Len(writers[w].records) > 0 => StoredInSplitterOrder(w))
    /\ [][\A w \in DOMAIN writers :
             writers'[w].putNo = writers[w].putNo
             => \A i \in 1..Len(writers[w].recordIds) :
                   writers'[w].attempts[i] = writers[w].attempts[i]]_vars

\* a shard set of three or more shards is stored and returned, one of its
\* creates having failed once and succeeded on the retry
C29_Witness ==
    \E w \in DOMAIN writers :
        /\ CommittedSplit(w)
        /\ Len(writers[w].records) >= 3
        /\ \E i \in 1..Len(writers[w].records) : writers[w].attempts[i] = 2


\* the put of caller w has failed after a rollback in which a delete raised
FailedWithRollbackError(w) ==
    /\ writers[w].pc = "failed"
    /\ Len(writers[w].recordIds) > 0
    /\ writers[w].rbFailed

\* C30: rollback failures do not mask the write failure.  During rollback a
\* delete that raises is skipped and the rollback goes on to delete every
\* remaining stored shard: one delete attempt per stored shard, in the
\* order stored, the shards whose delete succeeded being gone; and the
\* operation ends by raising the error of the failed create, not the error
\* of the delete.
C30_RollbackErrorsSwallowed ==
    \A w \in DOMAIN writers :
        FailedWithRollbackError(w)
        => LET wr == writers[w]
           IN  /\ [i \in 1..Len(wr.deletes) |-> wr.deletes[i].recordId] = wr.recordIds
               /\ \A i \in 1..Len(wr.deletes) :
                     wr.deletes[i].ok
                        => ~\E r \in store : /\ r.threadId = wr.threadId
                                             /\ r.recordId = wr.deletes[i].recordId
                                             /\ r.op = wr.putNo
               /\ wr.error =
                     Wrap("Checkpoint splitting failed",
                          Wrap("Failed to store split record after b retries",
                               [wr.errors[Len(wr.errors)] EXCEPT !.b = config.maxRetries]))

\* a write failed behind two or more stored shards; in its rollback the
\* first delete raised and a later one succeeded
C30_Witness ==
    \E w \in DOMAIN writers :
        /\ FailedWithRollbackError(w)
        /\ Len(writers[w].deletes) >= 2
        /\ ~writers[w].deletes[1].ok
        /\ writers[w].deletes[2].ok


\* the shard-set write of caller w is within its bounds: at most maxRetries
\* create attempts per shard, at most one delete per stored shard, rollback
\* only behind maxRetries failed attempts on the shard after the stored
\* ones, committed with all shards stored and their ids returned, failed
\* with the rollback run through and an error raised
WriteWithinBounds(w) ==
    LET wr == writers[w]
    IN  /\ \A i \in 1..Len(wr.records) : wr.attempts[i] <= config.maxRetries
        /\ Len(wr.deletes) <= Len(wr.recordIds)
        /\ \A i \in 1..Len(wr.deletes) : wr.deletes[i].recordId = wr.recordIds[i]
        /\ wr.pc \in {"rollback", "failed"}
              => /\ Len(wr.recordIds) < Len(wr.records)
                 /\ wr.attempts[Len(wr.recordIds) + 1] = config.maxRetries
                 /\ wr.returned = None
        /\ wr.pc = "rollback" => Len(wr.recordIds) > 0
        /\ wr.pc = "committed"
              => /\ Len(wr.recordIds) = Len(wr.records)
                 /\ wr.returned = Some(SplitOutcome(TRUE, wr.recordIds))
                 /\ wr.deletes = <<>>
                 /\ wr.error = NoError
        /\ wr.pc = "failed"
              => /\ Len(wr.deletes) = Len(wr.recordIds)
                 /\ wr.error # NoError

\* C31: the write state machine terminates.  Provided every store call
\* returns and the process does not stop, each shard-set write reaches
\* exactly one of the terminal states committed (all shards stored,
\* recordIds returned) and failed (rollback run, error raised), and stays
\* there, after at most maxRetries create attempts per shard and at most
\* one delete per stored shard; rollback is entered only after maxRetries
\* failed attempts on one shard, and never after commit.
C31_WriteTerminates ==
    /\ [](Len(writers["w1"].records) > 0 => WriteWithinBounds("w1"))
    /\ [][(Len(writers["w1"].records) > 0
            /\ writers["w1"].pc \in {"committed", "failed"}
            /\ writers'["w1"].putNo = writers["w1"].putNo)
           => writers'["w1"].pc = writers["w1"].pc]_vars
    /\ (writers["w1"].pc = "storing")
          ~> (writers["w1"].pc \in {"committed", "failed", "crashed"})

\* a write has failed after a rollback of two or more stored shards
C31_Witness ==
    /\ writers["w1"].pc = "failed"
    /\ Len(writers["w1"].deletes) >= 2

\* the last read ended as a failure: success=false, no data, no part counted
\* and a warning
ReadFailedWithWarning ==
    /\ ~lastOp.result.success
    /\ lastOp.result.data = None
    /\ lastOp.result.partsReassembled = 0
    /\ Len(lastOp.result.warnings) > 0

\* a gathered part of the last read carries a payload that does not parse:
\* the messages of a message-level auxiliary, or the concatenated chunks of a
\* content-level set
MalformedPayloadGathered ==
    LET parts == GatheredByLastRead
        auxiliaries == {i \in 1..Len(parts) :
                           /\ IsSome(parts[i].messageSplitData)
                           /\ PartNumberOrZero(parts[i]) # 0}
        chunks == ConcatChunks(SortByPartNumber(parts), 1, <<>>, FALSE)
    IN  \/ \E i \in auxiliaries :
              ~IsSome(JsonParseMessages(Get(parts[i].messageSplitData).messagesData))
        \/ /\ Len(parts) > 0
           /\ \A i \in 1..Len(parts) : IsSome(parts[i].contentSplitData)
           /\ chunks.ok
           /\ ~IsSome(JsonParseFull(Utf8Text(Base64Decode(Get(chunks.data)))))

\* the gather loop of the last read finds the deadline passed at the check
\* that opens one of its iterations
TimeoutFoundInGather ==
    LET primary == StoreGet(store, lastOp.threadId, lastOp.recordId)
    IN  /\ IsSplitRecord(primary)
        /\ IsSome(Get(primary).splitMetadata)
        /\ lastOp.deadlineAt \in 1..(Get(Get(primary).splitMetadata).totalParts - 1)

\* C32: reassemble never raises on a failure.  An absent or invalid
\* splitMetadata on a record flagged isSplit, a failing get of the primary, a
\* missing primary, a malformed payload, a checksum mismatch and a timeout
\* all yield success=false, no data, partsReassembled=0 and a non-empty
\* warnings list; a failing get of an auxiliary is treated as that part
\* being missing and does not by itself abort the gather.
C32_ReassembleNeverRaises ==
    lastOp.op = "reassemble"
    => LET primary == StoreGet(store, lastOp.threadId, lastOp.recordId)
           readable == lastOp.recordId \notin lastOp.rejecting
           flagged == readable /\ IsSplitRecord(primary)
       IN  /\ (flagged /\ ~IsSome(Get(primary).splitMetadata)) => ReadFailedWithWarning
           /\ (flagged /\ IsSome(Get(primary).splitMetadata)
                 /\ Get(Get(primary).splitMetadata).totalParts < 1)
                 => ReadFailedWithWarning
           /\ ~readable => ReadFailedWithWarning
           /\ ~IsSome(primary) => ReadFailedWithWarning
           /\ (flagged /\ MalformedPayloadGathered) => ReadFailedWithWarning
           /\ (flagged /\ \E i \in 1..Len(GatheredByLastRead) :
                             ChecksumMismatch(GatheredByLastRead[i]))
                 => ReadFailedWithWarning
           /\ (flagged /\ TimeoutFoundInGather) => ReadFailedWithWarning
           /\ \A id \in lastOp.rejecting \ {lastOp.recordId} :
                 lastOp.result =
                     ReassembleCheckpoint(StoreDelete(store, lastOp.threadId, id),
                                          lastOp.threadId, lastOp.recordId,
                                          ReadOptions, lastOp.deadlineAt, {})

\* the cases of C32 other than a splitMetadata that is present and invalid
C32_FailuresExceptInvalidMetadata ==
    lastOp.op = "reassemble"
    => LET primary == StoreGet(store, lastOp.threadId, lastOp.recordId)
           readable == lastOp.recordId \notin lastOp.rejecting
           flagged == readable /\ IsSplitRecord(primary)
       IN  /\ (flagged /\ ~IsSome(Get(primary).splitMetadata)) => ReadFailedWithWarning
           /\ ~readable => ReadFailedWithWarning
           /\ ~IsSome(primary) => ReadFailedWithWarning
           /\ (flagged /\ MalformedPayloadGathered) => ReadFailedWithWarning
           /\ (flagged /\ \E i \in 1..Len(GatheredByLastRead) :
                             ChecksumMismatch(GatheredByLastRead[i]))
                 => ReadFailedWithWarning
           /\ (flagged /\ TimeoutFoundInGather) => ReadFailedWithWarning
           /\ \A id \in lastOp.rejecting \ {lastOp.recordId} :
                 lastOp.result =
                     ReassembleCheckpoint(StoreDelete(store, lastOp.threadId, id),
                                          lastOp.threadId, lastOp.recordId,
                                          ReadOptions, lastOp.deadlineAt, {})

\* the last read gathered fewer parts than the primary of a content-level
\* set announces (a gather that timed out gathered none); the read was made
\* on the store, or on the table it was given as input
FewerContentPartsGathered ==
    LET st == IF IsSome(lastOp.input) THEN Get(lastOp.input) ELSE store
        primary == StoreGet(st, lastOp.threadId, lastOp.recordId)
        gathered == GatherSplitParts(st, lastOp.threadId, lastOp.recordId,
                                     Get(primary).splitMetadata, lastOp.deadlineAt,
                                     lastOp.rejecting)
    IN  /\ lastOp.op = "reassemble"
        /\ lastOp.recordId \notin lastOp.rejecting
        /\ IsSplitRecord(primary)
        /\ IsSome(Get(primary).splitMetadata)
        /\ Get(Get(primary).splitMetadata).strategy = CONTENT_LEVEL
        /\ (gathered.ok =>
               Len(Get(gathered.data)) < Get(Get(primary).splitMetadata).totalParts)

\* C33: content-level reassembly requires every part.  Whenever fewer than
\* totalParts parts of a CONTENT_LEVEL set are gathered (any part missing,
\* first, middle or last), reassemble returns success=false; it never
\* returns success=true from a concatenation that omits a chunk.
C33_ContentLevelRequiresEveryPart ==
    FewerContentPartsGathered => ~lastOp.result.success

\* the parts a read racing a write gathered, when it observed the primary
\* flagged isSplit (the store is the one the read saw: no step changed it)
GatheredByRacingRead ==
    LET primary == StoreGet(store, lastOp.threadId, lastOp.recordId)
        gathered == GatherSplitParts(store, lastOp.threadId, lastOp.recordId,
                                     Get(primary).splitMetadata, 0, {})
    IN  IF IsSplitRecord(primary) /\ gathered.ok THEN Get(gathered.data) ELSE <<>>

\* a read racing a write observed the primary and fewer parts than announced
RacingReadSawFewerParts ==
    LET primary == StoreGet(store, lastOp.threadId, lastOp.recordId)
    IN  /\ lastOp.op = "reassembleRacing"
        /\ IsSplitRecord(primary)
        /\ IsSome(Get(primary).splitMetadata)
        /\ Len(GatheredByRacingRead) >= 1
        /\ Len(GatheredByRacingRead) < Get(Get(primary).splitMetadata).totalParts

\* the result of the last read carries the warning "Found k/N parts"
CarriesFoundWarning(k, n) ==
    \E i \in 1..Len(lastOp.result.warnings) :
        lastOp.result.warnings[i] = Msg("Found a/b parts", k, n)

\* C34: reader racing a writer.  A reassemble that interleaves with a
\* shard-set write to the same key and observes the primary but only k < N
\* of the parts always carries the warning "Found k/N parts" in its result;
\* once the write has committed, a new reassemble gathers N/N parts.
C34_ReaderRacingWriter ==
    /\ RacingReadSawFewerParts
          => CarriesFoundWarning(Len(GatheredByRacingRead),
                 Get(Get(StoreGet(store, lastOp.threadId,
                                  lastOp.recordId)).splitMetadata).totalParts)
    /\ \A w \in DOMAIN writers :
          (ReadOfPutKey("reassemble") /\ CommittedSplit(w) /\ Intact(w) /\ lost = {})
             => Len(GatheredByLastRead) = Len(writers[w].records)

\* C34 for the MESSAGE_LEVEL strategy with the default prefix only
C34_ReaderRacingMessageLevelWriter ==
    (config.strategy = MESSAGE_LEVEL /\ config.splitRecordPrefix = DefaultPrefix)
        => C34_ReaderRacingWriter

\* the warning of C34 for a racing read of a CONTENT_LEVEL set
C34_RacingContentLevelReadWarns ==
    (config.strategy = CONTENT_LEVEL /\ RacingReadSawFewerParts)
          => CarriesFoundWarning(Len(GatheredByRacingRead),
                 Get(Get(StoreGet(store, lastOp.threadId,
                                  lastOp.recordId)).splitMetadata).totalParts)

\* the orders in which the parts could have been fetched
FetchOrders(parts) ==
    LET n == Len(parts)
        perms == {p \in [1..n -> 1..n] : \A i, j \in 1..n : p[i] = p[j] => i = j}
    IN  {[i \in 1..n |-> parts[p[i]]] : p \in perms}

\* parts without its k-th element
WithoutPart(parts, k) == SubSeq(parts, 1, k - 1) \o SubSeq(parts, k + 1, Len(parts))

\* a read of the put key after a committed message-level write whose items
\* are all in the table under the keys the gather reads
MessageLevelSetRead(w) ==
    /\ ReadOfPutKey("reassemble")
    /\ config.strategy = MESSAGE_LEVEL
    /\ config.splitRecordPrefix = DefaultPrefix
    /\ CommittedSplit(w)
    /\ Intact(w)
    /\ lost = {}

\* C35: message-level reassembly is independent of fetch order and channel
\* interleaving.  Parts are ordered by partNumber before use, each
\* auxiliary's messages are appended only to the channel named in its
\* messageSplitData, every channel of a split with several message-bearing
\* channels gets back exactly its own messages in original order, and the
\* channels of the primary that carried no messages are returned unchanged.
C35_MessageLevelChannelIntegrity ==
    \A w \in DOMAIN writers :
        MessageLevelSetRead(w)
        => LET parts == GatheredByLastRead
               original == Get(writers[w].checkpoint).channel_values
               restored == Get(lastOp.result.data).checkpoint.channel_values
           IN  /\ lastOp.result.success
               /\ Len(parts) = Len(writers[w].records)
               /\ \A i \in 1..(Len(parts) - 1) :
                     PartNumberOrZero(parts[i]) < PartNumberOrZero(parts[i + 1])
               /\ Len(restored) = Len(original)
               /\ \A c \in 1..Len(original) : restored[c] = original[c]
               /\ \A fetched \in FetchOrders(parts) :
                     ReassembleMessageLevel(SortByPartNumber(fetched), TRUE).data
                         = lastOp.result.data
               /\ \A k \in 1..Len(parts) :
                     IsSome(parts[k].messageSplitData)
                     => LET without == ReassembleMessageLevel(WithoutPart(parts, k),
                                                              TRUE)
                            others == Get(without.data).checkpoint.channel_values
                        IN  /\ without.ok
                            /\ \A c \in 1..Len(original) :
                                  original[c].name #
                                      Get(parts[k].messageSplitData).channelName
                                  => others[c] = original[c]

\* a read of a set split from two message-bearing channels, one of them
\* carried by two auxiliaries
C35_Witness ==
    /\ MessageLevelSetRead("w1")
    /\ lastOp.result.success
    /\ Len(GatheredByLastRead) = 4
    /\ \A c \in 1..2 :
          Len(Get(writers["w1"].checkpoint).channel_values[c].messages) >= 1

\* the failed create attempts of writer w on its i-th record
FailedAttempts(w, i) ==
    writers[w].attempts[i] - (IF i <= Len(writers[w].recordIds) THEN 1 ELSE 0)

\* the delays writer w awaited while storing its i-th record, in order
SleepsOnShard(w, i) == SelectSeq(writers[w].sleeps, LAMBDA e : e.idx = i)

\* C36: backoff schedule.  On one shard, the sleep that follows the k-th
\* failed create attempt (k = 1 .. maxRetries-1) is 2^k x 100 ms, no sleep
\* follows the maxRetries-th failed attempt, no sleep follows a successful
\* attempt, and the attempt counter starts again at zero for the next shard.
C36_BackoffSchedule ==
    \A w \in DOMAIN writers :
        /\ \A i \in 1..Len(writers[w].records) :
              LET failed == FailedAttempts(w, i)
                  slept == IF failed >= config.maxRetries
                           THEN config.maxRetries - 1 ELSE failed
              IN  SleepsOnShard(w, i) =
                      [k \in 1..slept |-> [idx |-> i, after |-> k,
                                           ms |-> 100 * (IF k = 1 THEN 2
                                                         ELSE IF k = 2 THEN 4 ELSE 8)]]
        /\ Len(writers[w].sleeps) <= MaxFaults
        /\ (writers[w].pc = "storing"
              /\ writers[w].attempts[writers[w].idx] = 0) => writers[w].retries = 0

\* a write that, with a shard already stored, failed twice on one shard
\* under maxRetries 3 and slept 200 ms and then 400 ms
C36_Witness ==
    /\ config.maxRetries = 3
    /\ Len(writers["w1"].recordIds) >= 1
    /\ \E i \in 1..Len(writers["w1"].records) :
          /\ FailedAttempts("w1", i) = 2
          /\ SleepsOnShard("w1", i) =
                <<[idx |-> i, after |-> 1, ms |-> 200],
                  [idx |-> i, after |-> 2, ms |-> 400]>>

\* no item of a shard set was altered behind the adapter
StoredAsWritten ==
    \A r \in store :
        (IsSome(r.splitMetadata) \/ r.isSplit = Some(TRUE))
            => \E w \in DOMAIN writers : \E i \in 1..Len(writers[w].records) :
                  Stamped(writers[w].records[i], writers[w].putNo) = r

\* the shard-set write of w began on a key that held a record, with no
\* other put under way, has failed and has rolled back, and nothing else
\* touched the table since
FailedOverEarlierRecord(w) ==
    /\ writers[w].pc = "failed"
    /\ Len(writers[w].records) > 0
    /\ IsSome(writers[w].before)
    /\ Quiet
    /\ lost = {}
    /\ StoredAsWritten

\* C37: a failed put does not destroy an earlier record.  If a record
\* (sharded or not) was already stored at (threadId, recordId) and a later
\* shard-set write to the same key fails and rolls back, then after the
\* failure the earlier record is still present at that key and getTuple
\* still returns its payload.
C37_FailedPutKeepsEarlierRecord ==
    \A w \in DOMAIN writers :
        FailedOverEarlierRecord(w)
        => /\ StoreGet(store, writers[w].threadId, PutRecordId) = writers[w].before
           /\ (lastOp.op = "getTuple" /\ lastOp.threadId = writers[w].threadId
                 /\ lastOp.recordId = PutRecordId /\ lastOp.deadlineAt = 0)
              => \E o \in DOMAIN writers \ {w} :
                    /\ Get(writers[w].before).op = writers[o].putNo
                    /\ lastOp.tuple = Some(PutPayload(o))

\* the put of caller w began with no other put under way on a key that held
\* the committed shard-set of another caller's earlier put, and committed
\* with fewer shards than that put, or unsplit; the table was not touched
\* since
OverwroteWithFewerShards(w, o) ==
    /\ writers[w].pc = "committed"
    /\ CommittedSplit(o)
    /\ IsSome(writers[w].before)
    /\ Get(writers[w].before).op = writers[o].putNo
    /\ Len(writers[w].records) < Len(writers[o].records)
    /\ Quiet
    /\ lost = {}
    /\ StoredAsWritten

\* the auxiliaries of the earlier put of o that the put of w did not overwrite
LeftoverAuxiliaries(w, o) ==
    {r \in StoredSetOf(o) : r.recordId # PutRecordId}

\* getTuple of the put key, or list of the put thread, after the overwrite
\* of w over o: the tuple is the payload of w, no leftover of o is among the
\* parts read, and list yields the key once, with the payload of w
LastWriteWins(w, o) ==
    /\ ReadOfPutKey("getTuple")
       => /\ lastOp.tuple = Some(PutPayload(w))
          /\ \A i \in 1..Len(GatheredByLastRead) :
                GatheredByLastRead[i] \notin LeftoverAuxiliaries(w, o)
    /\ (lastOp.op = "list" /\ lastOp.threadId = PutThread)
       => /\ \A i \in 1..Len(lastOp.items) :
                 /\ ~IsShardKey(lastOp.items[i].recordId, config.splitRecordPrefix)
                 /\ ~IsAuxiliaryId(lastOp.items[i].recordId)
          /\ \A i \in 1..Len(lastOp.items) :
                 lastOp.items[i].recordId = PutRecordId
                 => lastOp.items[i].tuple = PutPayload(w)

\* C38: sequential overwrite, last write wins.  After two successful puts in
\* sequence to the same (threadId, recordId), in which the second produces
\* fewer shards than the first or is not split at all, getTuple returns
\* exactly the second payload; auxiliaries left over from the first write
\* are never read into the result and are not yielded by list.
C38_SequentialOverwrite ==
    \A w \in DOMAIN writers : \A o \in DOMAIN writers \ {w} :
        OverwroteWithFewerShards(w, o) => LastWriteWins(w, o)

\* C38 for the default shard prefix, where the gather reads the keys the
\* split wrote
C38_SequentialOverwriteDefaultPrefix ==
    config.splitRecordPrefix = DefaultPrefix => C38_SequentialOverwrite

\* a getTuple after an unsplit put over a three-shard set that left two
\* auxiliaries behind
C38_UnsplitOverLeftovers ==
    \E w \in DOMAIN writers : \E o \in DOMAIN writers \ {w} :
        /\ OverwroteWithFewerShards(w, o)
        /\ ~writers[w].wasSplit
        /\ Cardinality(LeftoverAuxiliaries(w, o)) = 2
        /\ ReadOfPutKey("getTuple")
        /\ lastOp.tuple = Some(PutPayload(w))

\* the stored checksum of a message-level primary is not the checksum of its
\* checkpoint text followed by its metadata text
PrimaryChecksumMismatch(rec) ==
    /\ IsSome(rec.splitMetadata)
    /\ Get(rec.splitMetadata).strategy = MESSAGE_LEVEL
    /\ Get(rec.splitMetadata).partNumber = 0
    /\ IsSome(rec.checkpoint)
    /\ IsSome(rec.metadata)
    /\ IsSome(Get(rec.splitMetadata).checksum)
    /\ Get(Get(rec.splitMetadata).checksum) #
          CalculateChecksum(Get(rec.checkpoint) \o Get(rec.metadata))

\* the last operation was a reassemble of the put key, after a committed
\* shard-set write, that read a primary whose texts do not match its checksum
ReadMismatchingPrimary ==
    /\ ReadOfPutKey("reassemble")
    /\ \E w \in DOMAIN writers : CommittedSplit(w)
    /\ ReadOptions.validateChecksums
    /\ IsSome(StoreGet(store, PutThread, PutRecordId))
    /\ PrimaryChecksumMismatch(Get(StoreGet(store, PutThread, PutRecordId)))

\* C39: primary integrity.  With validateChecksums=true, a MESSAGE_LEVEL
\* reassemble returns success=false when the primary record's stored
\* checkpoint and metadata strings no longer match the checksum recorded in
\* the primary's splitMetadata (the checksum the splitter computed over
\* checkpoint followed by metadata).
C39_PrimaryIntegrity ==
    ReadMismatchingPrimary => ~lastOp.result.success

\* the splitter records, in every message-level primary it writes, the
\* checksum of the checkpoint text followed by the metadata text
C39_PrimaryChecksumAsWritten ==
    \A w \in DOMAIN writers : \A i \in 1..Len(writers[w].records) :
        ~PrimaryChecksumMismatch(writers[w].records[i])

=============================================================================
